---- MODULE Spec2Model ----
(***************************************************************************)
(* A model of top_pt_stream_services.py: the TMDB rate limiter, the retry  *)
(* decorator, the page cache of scrape_top10, the matching cascade of      *)
(* search_tmdb / validate_by_credits and the run of                        *)
(* StreamingServiceTracker.                                                *)
(*                                                                         *)
(* Each component has its own specification (SpecLimiter, SpecRetry,       *)
(* SpecCache, SpecSearch, SpecDirect, SpecRepeat, SpecRun); the variables  *)
(* of the other components stay at their initial value, except that the    *)
(* TMDB functions pass the rate limiter before each of their requests.     *)
(* SpecSetBack is the limiter under a wall clock that can be set back,     *)
(* SpecMulti, SpecCredits and SpecNoId are search_tmdb and                 *)
(* validate_by_credits on answers that hold other kinds of results,        *)
(* credits members without a name, and results without an id.              *)
(* Strings the code inspects (titles, names, dates)                        *)
(* are sequences of one-character strings, so that lower(), strip(),       *)
(* startswith() and the substring test are computed, not assumed.          *)
(***************************************************************************)
EXTENDS Integers, Sequences, FiniteSets, TLC

VARIABLES
    now,          \* the wall clock, time.time(), in whole seconds
    requests,     \* TMDBRateLimiter.requests: timestamps of the admitted calls
    admissions,   \* history: every timestamp wait_if_needed ever recorded
    last,         \* history: what the latest wait_if_needed call saw and did
    attempt,      \* retry_request.wrapper: the loop variable
    calls,        \* history: what func returned at each invocation, in order
    sleeps,       \* history: the argument of each time.sleep of the wrapper
    returned,     \* what the wrapper returned (Pending while it runs)
    _page_cache,   \* _page_cache: url -> the sections of the parsed page
    fetches,      \* history: url -> number of _http_session.get(url) calls
    task,         \* _scrape_all_services: index of the next scraping task
    scraped_data, \* _scrape_all_services: task name -> result of scrape_top10
    failed_services,  \* StreamingServiceTracker._failed_services
    scrape_results,   \* history: task name -> what scrape_top10 returned to it
    title,            \* search_tmdb: the title searched for
    year_str,         \* search_tmdb: the year string of the detail page
    content_hint,     \* search_tmdb: "movie", "series" or None
    starring,         \* search_tmdb: the reference person, NoStarring if none
    catalog_search,   \* TMDB: search endpoint -> its answer
    catalog_details,  \* TMDB: id -> the answers of /movie/{id} and /tv/{id}
    pc,               \* "call" before search_tmdb runs, "done" after it
    result,           \* what search_tmdb returned: (tmdb_id, media_type)
    step,             \* history: the step of the cascade that returned
    cands,            \* history: the filtered results of the last search
    net,              \* history: the TMDB requests of the call, in order
    TMDB_API_KEY,     \* config.TMDB_API_KEY is set
    imdb_id,          \* what get_tmdb_imdb_id returned
    validated,        \* what a call of validate_by_credits returned
    previous,         \* history: what the previous search_tmdb of the same arguments returned
    transmitted,      \* history: the HTTP requests put on the wire for TMDB
    enriched,         \* what scrape_details returned, and what its page was
    run_pc,           \* run: "scrape", "validate", "lists", "update", "summary", "returned"
    run_ret,          \* what run returned (Running until it returns)
    abort,            \* history: why run returned -1
    KIDS_LIST,        \* Config.KIDS_LIST
    tracker_config,   \* StreamingServiceTracker.config
    token_checks,     \* history: what each call of check_token returned
    cur,              \* _update_all_lists: index of the next step
    payloads,         \* _update_all_lists: list slug -> the payload built for it
    last_build,       \* history: the latest payload build
    writes,           \* history: the kinds of write request sent to Trakt
    last_update,      \* history: the latest attempt of update_list
    update_calls,     \* history: the lists update_list was called for
    exhausted,        \* history: the lists whose update_list returned None
    dispatched,       \* history: the call sites that issued a request
    faults,           \* the environment faults met so far
    summary           \* what _report_execution_summary reported

limiterVars == <<now, requests, admissions, last>>
retryVars == <<attempt, calls, sleeps, returned>>

cacheVars == <<_page_cache, fetches, task, scraped_data, failed_services, scrape_results>>

searchVars == <<title, year_str, content_hint, starring, catalog_search,
                catalog_details, pc, result, step, cands, net, TMDB_API_KEY, imdb_id,
                validated, previous, transmitted, enriched>>

runVars == <<run_pc, run_ret, abort, KIDS_LIST, tracker_config, token_checks, cur, payloads, last_build,
             writes, last_update, update_calls, exhausted, dispatched, faults, summary>>

vars == <<limiterVars, retryVars, cacheVars, searchVars, runVars>>

(***************************************************************************)
(* Bounds of the model.                                                    *)
(***************************************************************************)
\* TMDBRateLimiter(max_requests, time_window): the instance that is checked.
max_requests == 3
time_window == 4
\* The clock stops here.
MaxTime == 11
\* The longest delay between two clock reads of one call, and the longest
\* oversleep of time.sleep.
MaxLag == 1
\* The furthest the wall clock is set back while a call sleeps.
MaxSetBack == 1

(***************************************************************************)
(* TMDBRateLimiter                                                         *)
(***************************************************************************)
\* [req_time for req_time in self.requests if now - req_time < self.time_window]
PruneDropsTooEarly(reqs, t) ==
    SelectSeq(reqs, LAMBDA r : t - r < time_window - 1)

Prune(reqs, t) ==
    SelectSeq(reqs, LAMBDA r : t - r < time_window)

\* wait_time = self.time_window - (now - oldest_request)
WaitTimeElapsed(reqs, t) ==
    t - reqs[1]

WaitTime(reqs, t) ==
    time_window - (t - reqs[1])

\* time.sleep(secs) suspends the caller for at least secs.
SleepDurations(secs) ==
    { secs + over : over \in 0..MaxLag }

(***************************************************************************)
(* TMDBRateLimiter: state and operations                                   *)
(***************************************************************************)
LimiterStart ==
    /\ now = 0
    /\ requests = << >>
    /\ admissions = << >>
    /\ last = [called |-> 0, inWindow |-> 0, first |-> 0, slept |-> 0,
               returned |-> 0]

\* Time passes between two calls.
Tick ==
    /\ now < MaxTime
    /\ now' = now + 1
    /\ UNCHANGED <<requests, admissions, last>>
    /\ UNCHANGED <<retryVars, cacheVars, searchVars, runVars>>

\* TMDBRateLimiter.wait_if_needed, the whole call: prune, sleep when the
\* window is full, prune again, record the timestamp.  time.time() is the
\* wall clock: while the call sleeps it may be set back by up to set_back
\* (never behind the reading the call started with).
WaitIfNeeded(set_back) ==
    LET pruned == Prune(requests, now)
        full == Len(pruned) >= max_requests
        wait_time == IF full THEN WaitTime(pruned, now) ELSE 0
        mustSleep == full /\ wait_time > 0
    IN  \E slept \in (IF mustSleep THEN SleepDurations(wait_time) ELSE {0}),
           lag \in 0..MaxLag :
          \E back \in 0..(IF set_back < slept THEN set_back ELSE slept) :
            LET woke == now + slept - back
                kept == IF mustSleep THEN Prune(pruned, woke) ELSE pruned
                stamp == woke + lag
            IN  /\ stamp <= MaxTime
                /\ requests' = Append(kept, stamp)
                /\ admissions' = Append(admissions, stamp)
                /\ now' = stamp
                /\ last' = [called |-> now,
                            inWindow |-> Len(pruned),
                            first |-> IF pruned = << >> THEN now ELSE pruned[1],
                            slept |-> slept,
                            returned |-> stamp]
                /\ UNCHANGED <<retryVars, cacheVars, searchVars, runVars>>

\* wait_if_needed while the wall clock only goes forward.
wait_if_needed == WaitIfNeeded(0)

\* wait_if_needed while the wall clock can be set back during the sleep; the
\* limiter is followed until its window holds more than max_requests.
wait_if_needed_clock_set_back ==
    /\ Len(requests) <= max_requests
    /\ WaitIfNeeded(MaxSetBack)

(***************************************************************************)
(* retry_request                                                           *)
(***************************************************************************)
MAX_RETRIES == 10
BACKOFF_FACTOR == 2

\* What a wrapped function can hand back: a requests.Response with a status
\* code, or the int 304 of update_list; func may also raise.
Response(status) == [kind |-> "response", status |-> status]
Sentinel == [kind |-> "int", status |-> 304]
Raises == [kind |-> "raise", status |-> 0]
NoneValue == [kind |-> "None", status |-> 0]
Pending == [kind |-> "pending", status |-> 0]

StatusCodes == {200, 201, 404, 500}
Outcomes == { Response(c) : c \in StatusCodes } \cup {Sentinel, Raises}

\* bool(response): a Response is truthy when its status is below 400.
Truthy(r) ==
    \/ r.kind = "int" /\ r.status # 0
    \/ r.kind = "response" /\ r.status < 400

\* response and response == 304
\*   or (hasattr(response, "status_code") and response.status_code in [200, 201])
Succeeds(r) ==
    \/ Truthy(r) /\ r.kind = "int" /\ r.status = 304
    \/ r.kind = "response" /\ r.status \in {200, 201}

\* attempts = MAX_RETRIES;  for attempt in range(attempts)
AttemptsOneMore == MAX_RETRIES + 1

Attempts == MAX_RETRIES

\* time.sleep(BACKOFF_FACTOR**attempt)
BackoffLinear(n) == BACKOFF_FACTOR * n

Backoff(n) == BACKOFF_FACTOR ^ n

RetryStart ==
    /\ attempt = 0
    /\ calls = << >>
    /\ sleeps = << >>
    /\ returned = Pending

\* One iteration of the wrapper's loop: invoke func, return its result when
\* it succeeds, else sleep; the iteration that ends the loop returns None.
wrapper ==
    /\ returned = Pending
    /\ attempt < Attempts
    /\ \E response \in Outcomes :
        /\ calls' = Append(calls, response)
        /\ IF response = Raises
           THEN /\ returned' = Raises
                /\ UNCHANGED <<attempt, sleeps>>
           ELSE IF Succeeds(response)
           THEN /\ returned' = response
                /\ UNCHANGED <<attempt, sleeps>>
           ELSE /\ sleeps' = Append(sleeps, Backoff(attempt))
                /\ attempt' = attempt + 1
                /\ returned' = IF attempt + 1 < Attempts THEN Pending ELSE NoneValue
    /\ UNCHANGED <<limiterVars, cacheVars, searchVars, runVars>>

\* The wrapped function is called again (the next list, the next run).
CallAgain ==
    /\ returned # Pending
    /\ attempt' = 0
    /\ calls' = << >>
    /\ sleeps' = << >>
    /\ returned' = Pending
    /\ UNCHANGED <<limiterVars, cacheVars, searchVars, runVars>>

(***************************************************************************)
(* scrape_top10 and its page cache, driven by _scrape_all_services         *)
(***************************************************************************)
\* Config.urls (by key) and Config.sections (by key).
Urls == {"netflix", "netflix_kids", "hbo", "disney", "apple", "prime"}
Sections == {"movies", "shows", "kids_movies", "kids_shows", "overall"}

ScrapingTask(name, url, section) ==
    [name |-> name, url |-> url, section |-> section]

scraping_tasks ==
    << ScrapingTask("netflix_movies", "netflix", "movies"),
       ScrapingTask("netflix_shows", "netflix", "shows"),
       ScrapingTask("netflix_kids_movies", "netflix_kids", "kids_movies"),
       ScrapingTask("netflix_kids_shows", "netflix_kids", "kids_shows"),
       ScrapingTask("hbo_movies", "hbo", "movies"),
       ScrapingTask("hbo_shows", "hbo", "shows"),
       ScrapingTask("disney_overall", "disney", "overall"),
       ScrapingTask("apple_movies", "apple", "movies"),
       ScrapingTask("apple_shows", "apple", "shows"),
       ScrapingTask("prime_movies", "prime", "movies"),
       ScrapingTask("prime_shows", "prime", "shows") >>

TaskNames == { scraping_tasks[i].name : i \in DOMAIN scraping_tasks }

\* The sections some task asks of a url: what a page of that url may hold.
SectionsOf(url) ==
    { scraping_tasks[i].section :
        i \in { j \in DOMAIN scraping_tasks : scraping_tasks[j].url = url } }

\* A url that is not a key of _page_cache.
NotCached == {"not cached"}

\* _http_session.get(url): a status 200 with a page (the sections with a
\* well-formed table in it), another status, or a RequestException.
PageFetched(sections) == [status |-> 200, sections |-> sections]
FetchFailed(status) == [status |-> status, sections |-> {}]
FetchRaises == [status |-> 0, sections |-> {}]
\* A status 200 whose content makes BeautifulSoup(response.content) raise.
ParseRaises == [status |-> 200, sections |-> {"not parsed"}]

FetchOutcomes(url) ==
    { PageFetched(ss) : ss \in SUBSET SectionsOf(url) }
        \cup {FetchFailed(500), FetchRaises, ParseRaises}

\* The part of scrape_top10 after the page is at hand: the rows of the
\* section, or the empty list when the section is not on the page.
ScrapeSection(sections, section) ==
    IF section \in sections THEN "items" ELSE "empty"

NotScraped == "not scraped"
ScrapeFailed == "None"

\* if not result
IsFalsy(scraped) == scraped \in {ScrapeFailed, "empty"}

\* if result is None
IsNone(scraped) == scraped = ScrapeFailed

CacheStart ==
    /\ _page_cache = [u \in Urls |-> NotCached]
    /\ fetches = [u \in Urls |-> 0]
    /\ task = 1
    /\ scraped_data = [n \in TaskNames |-> NotScraped]
    /\ failed_services = {}
    /\ scrape_results = [n \in TaskNames |-> NotScraped]

\* One iteration of the loop of _scrape_all_services: scrape_top10(url,
\* section), then the bookkeeping of its result.
scrape_top10 ==
    /\ task <= Len(scraping_tasks)
    /\ LET t == scraping_tasks[task]
           record(scraped) ==
               /\ scrape_results' = [scrape_results EXCEPT ![t.name] = scraped]
               /\ scraped_data' = [scraped_data EXCEPT ![t.name] =
                                     IF scraped = ScrapeFailed THEN "empty" ELSE scraped]
               /\ failed_services' = IF IsNone(scraped)
                                     THEN failed_services \cup {t.name}
                                     ELSE failed_services
       IN  IF _page_cache[t.url] # NotCached
           THEN /\ record(ScrapeSection(_page_cache[t.url], t.section))
                /\ UNCHANGED <<_page_cache, fetches>>
           ELSE \E response \in FetchOutcomes(t.url) :
                   /\ fetches' = [fetches EXCEPT ![t.url] = @ + 1]
                   /\ IF response.status = 200 /\ response # ParseRaises
                      THEN /\ _page_cache' = [_page_cache EXCEPT ![t.url] = response.sections]
                           /\ record(ScrapeSection(response.sections, t.section))
                      ELSE /\ UNCHANGED _page_cache
                           /\ record(ScrapeFailed)
    /\ task' = task + 1
    /\ UNCHANGED <<limiterVars, retryVars, searchVars, runVars>>

(***************************************************************************)
(* Strings.  A string the code inspects is a sequence of one-character     *)
(* strings; the operators below are str.lower, str.strip, str.startswith   *)
(* and the "in" test of Python.                                            *)
(***************************************************************************)
LowerChar(c) ==
    CASE c = "A" -> "a" [] c = "B" -> "b" [] c = "C" -> "c" [] c = "D" -> "d" [] c = "E" -> "e"
      [] c = "F" -> "f" [] c = "G" -> "g" [] c = "H" -> "h" [] c = "I" -> "i" [] c = "J" -> "j"
      [] c = "K" -> "k" [] c = "L" -> "l" [] c = "M" -> "m" [] c = "N" -> "n" [] c = "O" -> "o"
      [] c = "P" -> "p" [] c = "Q" -> "q" [] c = "R" -> "r" [] c = "S" -> "s" [] c = "T" -> "t"
      [] c = "U" -> "u" [] c = "V" -> "v" [] c = "W" -> "w" [] c = "X" -> "x" [] c = "Y" -> "y"
      [] c = "Z" -> "z"
      [] OTHER -> c

Lower(s) == [i \in DOMAIN s |-> LowerChar(s[i])]

RECURSIVE LStrip(_)
LStrip(s) == IF s # << >> /\ s[1] = " " THEN LStrip(Tail(s)) ELSE s

RECURSIVE RStrip(_)
RStrip(s) ==
    IF s # << >> /\ s[Len(s)] = " " THEN RStrip(SubSeq(s, 1, Len(s) - 1)) ELSE s

Strip(s) == RStrip(LStrip(s))

StartsWith(s, prefix) ==
    Len(prefix) <= Len(s) /\ SubSeq(s, 1, Len(prefix)) = prefix

\* part in s
Contains(s, part) ==
    \E i \in 0..(Len(s) - Len(part)) : SubSeq(s, i + 1, i + Len(part)) = part

Digit(d) ==
    CASE d = 0 -> "0" [] d = 1 -> "1" [] d = 2 -> "2" [] d = 3 -> "3"
      [] d = 4 -> "4" [] d = 5 -> "5" [] d = 6 -> "6" [] d = 7 -> "7"
      [] d = 8 -> "8" [] d = 9 -> "9"

\* str(n) of a positive int
RECURSIVE PyStr(_)
PyStr(n) == IF n < 10 THEN Digit(n) ELSE PyStr(n \div 10) \o Digit(n % 10)

Min(a, b) == IF a < b THEN a ELSE b

(***************************************************************************)
(* TMDB enrichment helpers                                                 *)
(***************************************************************************)
CREDITS_VALIDATION_LIMIT == 20

\* for article in ("the ", "a ", "an ", "o ", "os ", "as ")
Articles ==
    << <<"t", "h", "e", " ">>, <<"a", " ">>, <<"a", "n", " ">>,
       <<"o", " ">>, <<"o", "s", " ">>, <<"a", "s", " ">> >>

RECURSIVE StripArticle(_, _)
StripArticle(normalized, k) ==
    IF k > Len(Articles) THEN normalized
    ELSE IF StartsWith(normalized, Articles[k])
         THEN SubSeq(normalized, Len(Articles[k]) + 1, Len(normalized))
         ELSE StripArticle(normalized, k + 1)

\* _normalize_title with the article loop left out
NormalizeKeepsArticle(title_text) == Strip(Lower(title_text))

_normalize_title(title_text) == StripArticle(Strip(Lower(title_text)), 1)

\* A key that a TMDB item does not carry (media_type on /search/movie and
\* /search/tv), and the None of content_hint and media_type_override.
NoField == "absent"
None == "None"
\* starring is None (or empty): no reference person.
NoStarring == << >>

Item(id, media_type, title_text, date) ==
    [id |-> id, media_type |-> media_type, title |-> title_text, date |-> date]

\* item.get("title") or item.get("name") or ""
_get_tmdb_title(item) == item.title

\* media_type_override or item.get("media_type", "movie")
_extract_result_info(item, media_type_override) ==
    [tmdb_id |-> item.id,
     media_type |-> IF media_type_override # None THEN media_type_override
                    ELSE IF item.media_type = NoField THEN "movie"
                    ELSE item.media_type]

\* A details response: status (0: the request raised), and the names of
\* credits.cast and credits.crew.
Details(status, cast, crew) == [status |-> status, cast |-> cast, crew |-> crew]

\* The details of a filler work (see Fillers): 200, the person not in them.
FillerDetails == Details(200, << <<"M", "o", "s", "s">> >>, << <<"L", "a", "n", "a">> >>)

_match_person_in_credits(credits_data, person_name_lower) ==
    LET members == credits_data.cast \o credits_data.crew
    IN  \E m \in DOMAIN members :
            LET member_name == Lower(members[m])
            IN  \/ Contains(member_name, person_name_lower)
                \/ Contains(person_name_lower, member_name)

(***************************************************************************)
(* The catalog: what TMDB answers.  A network call of the cascade is       *)
(* recorded in net.                                                        *)
(***************************************************************************)
SearchCall(endpoint, status) ==
    [call |-> "search", endpoint |-> endpoint, id |-> 0, status |-> status]

DetailsCall(endpoint, id, status) ==
    [call |-> "details", endpoint |-> endpoint, id |-> id, status |-> status]

Info(tmdb_id, media_type) == [tmdb_id |-> tmdb_id, media_type |-> media_type]
\* validate_by_credits returned None
NoInfo == Info(0, "None")

Unknown == [tmdb_id |-> "Unknown", media_type |-> "Unknown"]
\* get_tmdb_imdb_id and validate_by_credits have not been called; search_tmdb
\* has not been called before.
NotAskedYet == "not asked"
NotVerified == Info(0, "not asked")
NoRun == [tmdb_id |-> "not run", media_type |-> "not run"]
\* "Unknown" as a text of the page, and scrape_details not called.
UnknownText == <<"U", "n", "k", "n", "o", "w", "n">>
NotEnriched ==
    [page |-> "not asked", year |-> << >>, starring |-> << >>, tmdb_id |-> "not asked",
     imdb_id |-> "not asked", media_type |-> "not asked"]

\* _to_result
_to_result(info) ==
    [tmdb_id |-> IF info.tmdb_id # 0 THEN PyStr(info.tmdb_id) ELSE "Unknown",
     media_type |-> IF info.media_type # "" THEN info.media_type ELSE "Unknown"]

(***************************************************************************)
(* validate_by_credits                                                     *)
(***************************************************************************)
\* The details endpoints answering 404 once the limiter has admitted a request
DetailsWhenLimiterIdle(endpoint, tmdb_id) ==
    IF requests # << >> THEN Details(404, << >>, << >>)
    ELSE IF tmdb_id \in DOMAIN catalog_details THEN catalog_details[tmdb_id][endpoint]
    ELSE FillerDetails

\* GET /{endpoint}/{tmdb_id}?append_to_response=credits,external_ids
GetDetails(endpoint, tmdb_id) ==
    IF tmdb_id \in DOMAIN catalog_details THEN catalog_details[tmdb_id][endpoint]
    ELSE FillerDetails

\* candidates[:1] instead of candidates[:CREDITS_VALIDATION_LIMIT]
OnlyFirstCandidate(candidates) ==
    SubSeq(candidates, 1, Min(1, Len(candidates)))

\* candidates instead of candidates[:CREDITS_VALIDATION_LIMIT]
AllCandidates(candidates) == candidates

\* candidates[:CREDITS_VALIDATION_LIMIT]
CandidatesToValidate(candidates) ==
    SubSeq(candidates, 1, Min(CREDITS_VALIDATION_LIMIT, Len(candidates)))

\* The endpoint of the details request: the item's media_type if it is movie
\* or tv, else the content hint, else movie.
DetailsEndpoint(item, hint) ==
    IF item.media_type = "movie" THEN "movie"
    ELSE IF item.media_type = "tv" THEN "tv"
    ELSE IF hint = "movie" THEN "movie"
    ELSE IF hint = "series" THEN "tv"
    ELSE "movie"

\* The retry against /tv, whatever the content hint
RetriesAsTvAnyHint(status, endpoint, hint) ==
    status = 404 /\ endpoint = "movie"

\* elif response.status_code == 404 and endpoint == "movie" and content_hint is None
RetriesAsTv(status, endpoint, hint) ==
    status = 404 /\ endpoint = "movie" /\ hint = None

\* A failed fetch ending the loop
StopAfterFailedFetch(candidates, i) == Len(candidates) + 1

\* The else of line 467 and the except clauses inside the for loop: after a
\* fetch that failed the loop goes on with the next candidate.
AfterFailedFetch(candidates, i) == i + 1

\* The loop of validate_by_credits from candidate i on; trace holds the
\* requests issued so far.
RECURSIVE CreditsLoop(_, _, _, _, _)
CreditsLoop(candidates, i, starring_lower, hint, trace) ==
    IF i > Len(candidates) THEN [match |-> NoInfo, net |-> trace]
    ELSE
    LET item == candidates[i]
        endpoint == DetailsEndpoint(item, hint)
        response == GetDetails(endpoint, item.id)
        trace1 == Append(trace, DetailsCall(endpoint, item.id, response.status))
        response_tv == GetDetails("tv", item.id)
        trace2 == Append(trace1, DetailsCall("tv", item.id, response_tv.status))
    IN  IF item.id = 0
        THEN CreditsLoop(candidates, i + 1, starring_lower, hint, trace)
        ELSE IF response.status = 200
        THEN IF _match_person_in_credits(response, starring_lower)
             THEN [match |-> Info(item.id,
                                  IF item.media_type # NoField THEN item.media_type
                                  ELSE IF endpoint = "movie" THEN "movie" ELSE "tv"),
                   net |-> trace1]
             ELSE CreditsLoop(candidates, i + 1, starring_lower, hint, trace1)
        ELSE IF RetriesAsTv(response.status, endpoint, hint)
        THEN IF /\ response_tv.status = 200
                /\ _match_person_in_credits(response_tv, starring_lower)
             THEN [match |-> Info(item.id, "tv"), net |-> trace2]
             ELSE CreditsLoop(candidates, i + 1, starring_lower, hint, trace2)
        ELSE CreditsLoop(candidates, AfterFailedFetch(candidates, i), starring_lower, hint,
                         trace1)

\* The test of the key, with the key taken as always set
KeyNeverMissing == FALSE

\* not config.TMDB_API_KEY
NoKey == ~TMDB_API_KEY

validate_by_credits(candidates, person, hint) ==
    IF NoKey \/ person = NoStarring THEN [match |-> NoInfo, net |-> << >>]
    ELSE CreditsLoop(CandidatesToValidate(candidates), 1, Lower(person), hint, << >>)

(***************************************************************************)
(* search_tmdb                                                             *)
(***************************************************************************)
SearchEndpoint(hint) ==
    IF hint = "movie" THEN "movie" ELSE IF hint = "series" THEN "tv" ELSE "multi"

MediaTypeOverride(hint) ==
    IF hint = "movie" THEN "movie" ELSE IF hint = "series" THEN "tv" ELSE None

\* The retry of an empty search asks for the same kind again
AltHintSame(hint) == hint

\* alt_hint = "series" if content_hint == "movie" else "movie"
AltHint(hint) == IF hint = "movie" THEN "series" ELSE "movie"

\* results = [r for r in results if r.get("media_type") != "person"]
FilterResults(results, media_type_override) ==
    IF media_type_override = None
    THEN SelectSeq(results, LAMBDA r : r.media_type # "person")
    ELSE results

\* re.search(r"\b(19|20)\d{2}\b", year_str): the first match, or the empty
\* string when there is none.
Digits == {"0", "1", "2", "3", "4", "5", "6", "7", "8", "9"}
NonWordChars == {" ", "/", "-"}

YearAt(s, i) ==
    /\ i + 3 <= Len(s)
    /\ <<s[i], s[i + 1]>> \in { <<"1", "9">>, <<"2", "0">> }
    /\ s[i + 2] \in Digits
    /\ s[i + 3] \in Digits
    /\ (i = 1 \/ s[i - 1] \in NonWordChars)
    /\ (i + 3 = Len(s) \/ s[i + 4] \in NonWordChars)

YearFragment(s) ==
    LET starts == { i \in DOMAIN s : YearAt(s, i) }
    IN  IF starts = {} THEN << >>
        ELSE LET first == CHOOSE i \in starts : \A j \in starts : i <= j
             IN  SubSeq(s, first, first + 3)

\* Step 4 taking the last item whose release date starts with the year
YearMatchLast(results) ==
    LET year_fragment == YearFragment(year_str)
        hits == { i \in DOMAIN results :
                    results[i].date # << >> /\ StartsWith(results[i].date, year_fragment) }
    IN  IF year_fragment = << >> \/ hits = {} THEN 0
        ELSE CHOOSE i \in hits : \A j \in hits : i >= j

\* Step 4: the first item whose release date starts with the year, 0 if none.
YearMatch(results) ==
    LET year_fragment == YearFragment(year_str)
        hits == { i \in DOMAIN results :
                    results[i].date # << >> /\ StartsWith(results[i].date, year_fragment) }
    IN  IF year_fragment = << >> \/ hits = {} THEN 0
        ELSE CHOOSE i \in hits : \A j \in hits : i <= j

\* Step 5: the items whose normalized title is the normalized search title.
TitleMatches(results) ==
    SelectSeq(results, LAMBDA item :
        _normalize_title(_get_tmdb_title(item)) = _normalize_title(title))

\* The fallback gives up when no title matches
FallbackNeedsTitleMatch(title_matches, results) ==
    IF title_matches # << >> THEN title_matches[1] ELSE Item(0, "", << >>, << >>)

\* The fallback taking the first result whatever the titles
FallbackFirstResult(title_matches, results) == results[1]

\* Step 6: fallback = title_matches[0] if title_matches else results[0]
Fallback(title_matches, results) ==
    IF title_matches # << >> THEN title_matches[1] ELSE results[1]

Resolved(result_pair, step_label, results, trace) ==
    [result |-> result_pair, step |-> step_label, candidates |-> results, net |-> trace]

\* _verify_and_return giving the kind of the search result also when the
\* credits verified the item
VerifiedKindDropped(chosen_item, hint, results, trace) ==
    LET verification == validate_by_credits(<<chosen_item>>, starring, hint)
    IN  Resolved(_to_result(_extract_result_info(chosen_item, MediaTypeOverride(hint))),
                 IF starring # NoStarring /\ verification.match # NoInfo
                 THEN "single verified" ELSE "single",
                 results, trace \o verification.net)

\* _verify_and_return
_verify_and_return(chosen_item, hint, results, trace) ==
    LET verification == validate_by_credits(<<chosen_item>>, starring, hint)
    IN  IF starring # NoStarring /\ verification.match # NoInfo
        THEN Resolved(_to_result(verification.match), "single verified", results,
                      trace \o verification.net)
        ELSE Resolved(_to_result(_extract_result_info(chosen_item, MediaTypeOverride(hint))),
                      "single", results, trace \o verification.net)

\* Steps 4 to 6, on the results already fetched.
LocalSteps(results, media_type_override, trace) ==
    LET year_hit == YearMatch(results)
        title_matches == TitleMatches(results)
    IN  IF year_hit # 0
        THEN Resolved(_to_result(_extract_result_info(results[year_hit], media_type_override)),
                      "year", results, trace)
        ELSE IF Len(title_matches) = 1
        THEN Resolved(_to_result(_extract_result_info(title_matches[1], media_type_override)),
                      "title", results, trace)
        ELSE Resolved(_to_result(_extract_result_info(Fallback(title_matches, results),
                                                    media_type_override)),
                      "fallback", results, trace)

\* search_tmdb(title, year_str, hint, starring, person_role, _retried), after
\* the requests of trace.
RECURSIVE SearchTmdb(_, _, _)
SearchTmdb(hint, retried, trace) ==
    LET endpoint == SearchEndpoint(hint)
        media_type_override == MediaTypeOverride(hint)
        response == catalog_search[endpoint]
        trace1 == Append(trace, SearchCall(endpoint, response.status))
        results == FilterResults(response.results, media_type_override)
        credits_match == validate_by_credits(results, starring, hint)
    IN  IF NoKey
        THEN Resolved(Unknown, "no key", << >>, trace)
        ELSE IF response.status # 200
        THEN Resolved(Unknown, "search failed", << >>, trace1)
        ELSE IF results = << >>
        THEN IF ~retried /\ hint \in {"movie", "series"}
             THEN SearchTmdb(AltHint(hint), TRUE, trace1)
             ELSE Resolved(Unknown, "no results", << >>, trace1)
        ELSE IF Len(results) = 1
        THEN _verify_and_return(results[1], hint, results, trace1)
        ELSE IF starring # NoStarring /\ credits_match.match # NoInfo
        THEN Resolved(_to_result(credits_match.match), "credits", results,
                      trace1 \o credits_match.net)
        ELSE LocalSteps(results, media_type_override, trace1 \o credits_match.net)

(***************************************************************************)
(* The inputs of search_tmdb and the answers of the catalog                *)
(***************************************************************************)
\* The longest list of works a search answers (before the padding below).
MaxCands == 3

Hints == {"movie", "series", None}
QueryTitle == <<"T", "h", "e", " ", "M", "a", "t", "r", "i", "x">>
Persons == {NoStarring, <<"K", "e", "a", "n", "u">>}
YearStrings == {<<"U", "n", "k", "n", "o", "w", "n">>, <<"0", "5", "/", "1", "5", "/", "2", "0", "0", "3">>}

\* The works of the catalog.  /search/multi tells the kind of each and also
\* answers a person; /search/movie and /search/tv carry no media_type.
Work(id, media_type) ==
    CASE id = 1 -> Item(1, media_type, <<"M", "a", "t", "r", "i", "x">>, <<"1", "9", "9", "9", "-", "0", "3", "-", "3", "1">>)
      [] id = 2 -> Item(2, media_type, <<"M", "a", "t", "r", "i", "x", " ", "R", "e", "l", "o", "a", "d", "e", "d">>, <<"2", "0", "0", "3", "-", "0", "5", "-", "1", "5">>)
      [] id = 3 -> Item(3, media_type, <<"T", "H", "E", " ", "M", "A", "T", "R", "I", "X">>, <<"2", "0", "0", "3", "-", "1", "1", "-", "0", "5">>)

MultiPool ==
    { Work(1, "movie"), Work(2, "tv"), Work(3, "movie"),
      Item(4, "person", <<"K", "e", "a", "n", "u">>, << >>) }

TypedPool == { Work(1, NoField), Work(2, NoField), Work(3, NoField) }

Pool(endpoint) == IF endpoint = "multi" THEN MultiPool ELSE TypedPool

\* Works that fill the head of a long answer: their credits never hold the
\* person.
FillerId(k) == 10 + k

Fillers(n, endpoint) ==
    [k \in 1..n |->
        Item(FillerId(k), IF endpoint = "multi" THEN "movie" ELSE NoField,
             <<"X">>, << >>)]

WorkIds == {1, 2, 3}
FillerIds == { FillerId(k) : k \in 1..CREDITS_VALIDATION_LIMIT }

\* Lists of at most longest different items of the pool.
Lists(pool, longest) ==
    { s \in UNION { [1..n -> pool] : n \in 0..longest } :
        \A i, j \in DOMAIN s : i # j => s[i] # s[j] }

SearchAnswer(status, results) == [status |-> status, results |-> results]
\* An endpoint that is not asked in this call.
NotAsked == SearchAnswer(500, << >>)

\* An answer of a search endpoint: 200 with a list (after pad filler works),
\* another status, or a RequestException (status 0).
SearchAnswers(endpoint, pad, longest, others) ==
    { SearchAnswer(200, Fillers(pad, endpoint) \o s) :
        s \in Lists(Pool(endpoint) \cup (IF endpoint = "multi" THEN others ELSE {}), longest) }
        \cup {SearchAnswer(500, << >>), SearchAnswer(0, << >>)}

InCast == Details(200, << <<"M", "o", "s", "s">>, <<"K", "e", "a", "n", "u", " ", "R">> >>, << <<"L", "a", "n", "a">> >>)
InCrew == Details(200, << <<"M", "o", "s", "s">> >>, << <<"L", "a", "n", "a">>, <<"K", "E", "A", "N", "U">> >>)
NotInCredits == FillerDetails
NotFound == Details(404, << >>, << >>)
DetailsRaises == Details(0, << >>, << >>)

DetailsOf(movie, tv) == [movie |-> movie, tv |-> tv]

\* What the two details endpoints answer for one item of a search answer.
\* Only the endpoints validate_by_credits can ask for that item vary; behind
\* a padding of filler works the answers are 200, with or without the person.
DetailsAnswers(item, hint, pad) ==
    IF DetailsEndpoint(item, hint) = "tv"
    THEN { DetailsOf(NotFound, d) :
             d \in (IF pad > 0 THEN {InCast, NotInCredits}
                    ELSE {InCast, InCrew, NotInCredits, NotFound, DetailsRaises}) }
    ELSE { DetailsOf(d, NotFound) :
             d \in (IF pad > 0 THEN {InCast, NotInCredits}
                    ELSE {InCast, InCrew, NotInCredits, DetailsRaises}) }
           \cup (IF pad > 0 THEN {}
                 ELSE IF hint = None
                 THEN { DetailsOf(NotFound, d) : d \in {InCast, NotInCredits, NotFound} }
                 ELSE { DetailsOf(NotFound, NotFound) })

NoDetails == [id \in WorkIds |-> DetailsOf(NotFound, NotFound)]

RECURSIVE DetailsCatalogs(_, _, _)
DetailsCatalogs(items, hint, pad) ==
    IF items = << >> THEN {NoDetails}
    ELSE IF items[1].id \notin WorkIds THEN DetailsCatalogs(Tail(items), hint, pad)
    ELSE { [c EXCEPT ![items[1].id] = d] :
             c \in DetailsCatalogs(Tail(items), hint, pad),
             d \in DetailsAnswers(items[1], hint, pad) }

SearchStart ==
    /\ title = << >>
    /\ year_str = << >>
    /\ content_hint = None
    /\ starring = NoStarring
    /\ catalog_search = [e \in {"movie", "tv", "multi"} |-> NotAsked]
    /\ catalog_details = NoDetails
    /\ pc = "idle"
    /\ result = Unknown
    /\ step = "none"
    /\ cands = << >>
    /\ net = << >>
    /\ TMDB_API_KEY = TRUE
    /\ imdb_id = NotAskedYet
    /\ validated = NotVerified
    /\ previous = NoRun
    /\ transmitted = 0
    /\ enriched = NotEnriched

\* A call about to be made with the key set or not, and the catalog it will
\* meet, its search answers padded by one of pads filler works and holding
\* at most longest other works, those of others among them when the search is
\* /search/multi. Without the key no endpoint is asked, and the details are
\* left out.
CatalogInit(keys, hints, others, pads, longest) ==
    \E key \in keys :
    \E hint \in hints, person \in Persons, year \in YearStrings :
    \E pad \in (IF person = NoStarring \/ ~key THEN {0} ELSE pads) :
    \E first \in SearchAnswers(SearchEndpoint(hint), pad, longest, others) :
    LET flips == /\ hint # None
                 /\ first.status = 200
                 /\ first.results = << >>
        asked == IF flips THEN AltHint(hint) ELSE hint
    IN
    \E second \in (IF flips THEN SearchAnswers(SearchEndpoint(asked), pad, longest, others) ELSE {NotAsked}) :
    LET found == FilterResults(IF flips THEN second.results ELSE first.results,
                               MediaTypeOverride(asked))
    IN
    \E details \in (IF person = NoStarring \/ ~key THEN {NoDetails}
                    ELSE DetailsCatalogs(found, asked, pad)) :
        /\ title = QueryTitle
        /\ year_str = year
        /\ content_hint = hint
        /\ starring = person
        /\ catalog_search =
              [e \in {"movie", "tv", "multi"} |->
                  IF e = SearchEndpoint(hint) THEN first
                  ELSE IF flips /\ e = SearchEndpoint(asked) THEN second
                  ELSE NotAsked]
        /\ catalog_details = details
        /\ pc = "call"
        /\ result = Unknown
        /\ step = "none"
        /\ cands = << >>
        /\ net = << >>
        /\ TMDB_API_KEY = key
        /\ imdb_id = NotAskedYet
        /\ validated = NotVerified
        /\ previous = NoRun
        /\ transmitted = 0
        /\ enriched = NotEnriched

\* Credits with a member that has no name: member.get("name", "") is "".
NamelessMember == Details(200, << << >> >>, << >>)

CreditsAnswers == {InCast, NotInCredits, NamelessMember}

\* The details of one search result, d being the answer of the endpoint that
\* validate_by_credits asks for it.
DetailsFor(item, hint, d) ==
    IF DetailsEndpoint(item, hint) = "tv" THEN DetailsOf(NotFound, d) ELSE DetailsOf(d, NotFound)

\* A call about a person, the key set, the search answering one or two
\* works whose credits may hold a member without a name.
NamelessInit ==
    \E hint \in Hints, year \in YearStrings :
    \E found \in Lists(Pool(SearchEndpoint(hint)), MaxCands - 1) :
    \E d \in [DOMAIN found -> CreditsAnswers] :
        /\ found # << >>
        /\ title = QueryTitle
        /\ year_str = year
        /\ content_hint = hint
        /\ starring = <<"K", "e", "a", "n", "u">>
        /\ catalog_search =
              [e \in {"movie", "tv", "multi"} |->
                  IF e = SearchEndpoint(hint) THEN SearchAnswer(200, found) ELSE NotAsked]
        /\ catalog_details =
              [id \in WorkIds |->
                  IF \E k \in DOMAIN found : found[k].id = id
                  THEN LET k == CHOOSE k \in DOMAIN found : found[k].id = id
                       IN  DetailsFor(found[k], hint, d[k])
                  ELSE NoDetails[id]]
        /\ pc = "call"
        /\ result = Unknown
        /\ step = "none"
        /\ cands = << >>
        /\ net = << >>
        /\ TMDB_API_KEY = TRUE
        /\ imdb_id = NotAskedYet
        /\ validated = NotVerified
        /\ previous = NoRun
        /\ transmitted = 0
        /\ enriched = NotEnriched

\* A call of search_tmdb about to be made, the key set.
SearchInit == CatalogInit({TRUE}, Hints, {}, {0, CREDITS_VALIDATION_LIMIT - 1}, MaxCands)

\* A call of one of the TMDB functions about to be made.
DirectInit == CatalogInit(BOOLEAN, Hints, {}, {0}, MaxCands - 1)

\* A search result without an id: item.get("id") is None.
NoIdItems ==
    { Item(0, "movie", <<"T", "h", "e", " ", "M", "a", "t", "r", "i", "x">>, << >>) }

\* A call of search_tmdb without a content hint about to be made, the answer
\* of /search/multi holding such a result or not.
NoIdInit == CatalogInit({TRUE}, {None}, NoIdItems, {0}, MaxCands - 1)

\* An item of /search/multi that is neither a movie, a series nor a person.
OtherKinds ==
    { Item(5, "collection", <<"M", "a", "t", "r", "i", "x">>, << >>) }

\* A call of search_tmdb without a content hint about to be made, the answer
\* of /search/multi holding items of every kind.
MultiInit == CatalogInit({TRUE}, {None}, OtherKinds, {0}, MaxCands)

\* tmdb_rate_limiter.wait_if_needed() as the TMDB functions meet it: the
\* caller sleeps wait_time and no other time passes.
Limiter(t, reqs, adm, latest) ==
    [now |-> t, requests |-> reqs, admissions |-> adm, last |-> latest]

Admitted(lim) ==
    LET pruned == Prune(lim.requests, lim.now)
        full == Len(pruned) >= max_requests
        wait_time == IF full THEN WaitTime(pruned, lim.now) ELSE 0
        mustSleep == full /\ wait_time > 0
        woke == IF mustSleep THEN lim.now + wait_time ELSE lim.now
        kept == IF mustSleep THEN Prune(pruned, woke) ELSE pruned
    IN  Limiter(woke, Append(kept, woke), Append(lim.admissions, woke),
                [called |-> lim.now,
                 inWindow |-> Len(pruned),
                 first |-> IF pruned = << >> THEN lim.now ELSE pruned[1],
                 slept |-> woke - lim.now,
                 returned |-> woke])

\* wait_if_needed called again and again, until it has admitted count calls.
RECURSIVE AdmittedUntil(_, _)
AdmittedUntil(lim, count) ==
    IF Len(lim.admissions) >= count THEN lim
    ELSE AdmittedUntil(Admitted(lim), count)

\* The limiter after the n requests of a call.
LimiterAfter(n) ==
    LET lim == AdmittedUntil(Limiter(now, requests, admissions, last),
                             Len(admissions) + n)
    IN  /\ now' = lim.now
        /\ requests' = lim.requests
        /\ admissions' = lim.admissions
        /\ last' = lim.last

\* _create_retry_session(retries, backoff_factor, status_forcelist): the
\* adapter of the TMDB session sends a GET again, up to retries times, when
\* the connection fails or the status is in status_forcelist.
retries == 3
status_forcelist == {429, 500, 502, 503, 504}

Transmissions(status) ==
    IF status = 0 \/ status \in status_forcelist THEN 1 + retries ELSE 1

RECURSIVE Transmitted(_)
Transmitted(trace) ==
    IF trace = << >> THEN 0
    ELSE Transmissions(trace[1].status) + Transmitted(Tail(trace))

\* search_tmdb, the whole call.
search_tmdb ==
    /\ pc = "call"
    /\ LET out == SearchTmdb(content_hint, FALSE, << >>)
       IN  /\ result' = out.result
           /\ step' = out.step
           /\ cands' = out.candidates
           /\ net' = out.net
           /\ LimiterAfter(Len(out.net))
           /\ transmitted' = transmitted + Transmitted(out.net)
    /\ pc' = "done"
    /\ UNCHANGED <<title, year_str, content_hint, starring, catalog_search, catalog_details,
                   TMDB_API_KEY, imdb_id, validated, previous, enriched>>
    /\ UNCHANGED <<retryVars, cacheVars, runVars>>

\* search_tmdb is called once more with the same arguments.
search_again ==
    /\ pc = "done"
    /\ previous = NoRun
    /\ previous' = result
    /\ pc' = "call"
    /\ UNCHANGED <<title, year_str, content_hint, starring, catalog_search, catalog_details,
                   result, step, cands, net, TMDB_API_KEY, imdb_id, validated,
                   transmitted, enriched>>
    /\ UNCHANGED <<limiterVars, retryVars, cacheVars, runVars>>

\* A call of validate_by_credits on the answer of the search endpoint of the
\* content hint.
validate_by_credits_call ==
    /\ pc = "call"
    /\ LET candidates == FilterResults(catalog_search[SearchEndpoint(content_hint)].results,
                                       MediaTypeOverride(content_hint))
           out == validate_by_credits(candidates, starring, content_hint)
       IN  /\ validated' = out.match
           /\ net' = out.net
           /\ LimiterAfter(Len(out.net))
           /\ transmitted' = transmitted + Transmitted(out.net)
    /\ pc' = "validated"
    /\ UNCHANGED <<title, year_str, content_hint, starring, catalog_search, catalog_details,
                   result, step, cands, TMDB_API_KEY, imdb_id, previous, enriched>>
    /\ UNCHANGED <<retryVars, cacheVars, runVars>>

\* The int of an id that search_tmdb returned as a string.
IdOf(tmdb_id) == CHOOSE n \in WorkIds \cup FillerIds : PyStr(n) = tmdb_id

\* get_tmdb_imdb_id returning the imdb_id of the answer as it is
ImdbIdAsAnswered(tmdb_id, media_type, external_ids) ==
    IF NoKey \/ tmdb_id = "Unknown" THEN [imdb_id |-> "Unknown", net |-> << >>]
    ELSE [imdb_id |-> external_ids,
          net |-> <<DetailsCall(IF media_type = "movie" THEN "movie" ELSE "tv", IdOf(tmdb_id),
                                GetDetails(IF media_type = "movie" THEN "movie" ELSE "tv",
                                           IdOf(tmdb_id)).status)>>]

\* get_tmdb_imdb_id(tmdb_id, media_type): the IMDb id and the request sent,
\* external_ids being the imdb_id of the catalog's answer (None when it has none).
GetTmdbImdbId(tmdb_id, media_type, external_ids) ==
    LET endpoint == IF media_type = "movie" THEN "movie" ELSE "tv"
        response == GetDetails(endpoint, IdOf(tmdb_id))
        trace == <<DetailsCall(endpoint, IdOf(tmdb_id), response.status)>>
    IN  IF NoKey \/ tmdb_id = "Unknown" THEN [imdb_id |-> "Unknown", net |-> << >>]
        ELSE IF response.status = 200
        THEN [imdb_id |-> IF external_ids # None THEN external_ids ELSE "Unknown", net |-> trace]
        ELSE [imdb_id |-> "Unknown", net |-> trace]

\* A call of get_tmdb_imdb_id.
get_tmdb_imdb_id ==
    /\ pc = "call"
    /\ \E tmdb_id \in {"Unknown", "1"}, media_type \in {"movie", "tv"},
          external_ids \in {None, "tt1"} :
        LET out == GetTmdbImdbId(tmdb_id, media_type, external_ids)
        IN  /\ imdb_id' = out.imdb_id
            /\ net' = out.net
            /\ LimiterAfter(Len(out.net))
            /\ transmitted' = transmitted + Transmitted(out.net)
    /\ pc' = "enriched"
    /\ UNCHANGED <<title, year_str, content_hint, starring, catalog_search, catalog_details,
                   result, step, cands, TMDB_API_KEY, validated, previous, enriched>>
    /\ UNCHANGED <<retryVars, cacheVars, runVars>>

\* effective_hint: the content hint of the call, or the type of the detail
\* page when the call has none.
effective_hint(hint, detail_media_type) ==
    IF hint = None /\ detail_media_type # None THEN detail_media_type ELSE hint

\* The five fields scrape_details returns; page is what became of its page.
Enriched(page, year, person, tmdb_id, imdb, media_type) ==
    [page |-> page, year |-> year, starring |-> person, tmdb_id |-> tmdb_id,
     imdb_id |-> imdb, media_type |-> media_type]

\* scrape_details(title_tag_slug, title, content_hint), the whole call.  The
\* page answers 200 and is read ("ok"), answers another status ("status"),
\* the request raises ("raises"), or reading the page raises before or
\* after the year was taken ("parse raises").  The premiere and the person of
\* the page are year_str and starring.
scrape_details ==
    /\ pc = "call"
    /\ \E page \in {"ok", "status", "raises", "parse raises"},
          hint \in Hints, detail_media_type \in Hints,
          year_taken \in BOOLEAN, external_ids \in {None, "tt1"} :
        LET out == SearchTmdb(content_hint, FALSE, << >>)
            tmdb_id == out.result.tmdb_id
            media_type == out.result.media_type
            imdb == IF tmdb_id # "Unknown"
                    THEN GetTmdbImdbId(tmdb_id, media_type, external_ids)
                    ELSE [imdb_id |-> "Unknown", net |-> << >>]
            person == IF starring # NoStarring THEN starring ELSE UnknownText
        IN  /\ effective_hint(hint, detail_media_type) = content_hint
            /\ page # "parse raises" => year_taken
            /\ IF page = "ok"
               THEN /\ enriched' = Enriched(page, year_str, person, tmdb_id,
                                            imdb.imdb_id, media_type)
                    /\ result' = out.result
                    /\ step' = out.step
                    /\ cands' = out.candidates
                    /\ imdb_id' = imdb.imdb_id
                    /\ net' = out.net \o imdb.net
                    /\ LimiterAfter(Len(out.net \o imdb.net))
                    /\ transmitted' = transmitted + Transmitted(out.net \o imdb.net)
               ELSE /\ enriched' = Enriched(page,
                                            IF page = "parse raises" /\ year_taken
                                            THEN year_str ELSE UnknownText,
                                            UnknownText, "Unknown", "Unknown", "Unknown")
                    /\ UNCHANGED <<result, step, cands, imdb_id, net, transmitted>>
                    /\ UNCHANGED limiterVars
    /\ pc' = "scraped"
    /\ UNCHANGED <<title, year_str, content_hint, starring, catalog_search, catalog_details,
                   TMDB_API_KEY, validated, previous>>
    /\ UNCHANGED <<retryVars, cacheVars, runVars>>

(***************************************************************************)
(* StreamingServiceTracker.run: scraping, the check of the Trakt token     *)
(* and lists, the payloads and the list updates, the summary.              *)
(***************************************************************************)
\* Environment faults one run meets: tasks whose scrape gives nothing, or,
\* when every scrape gave items, missing lists, items other than the movie
\* Trakt knows by id and lists whose first update attempt fails.
MaxFaulty == 1
\* The longest top list handed to a payload builder.
MaxItems == 2

trakt_netflix_movies_list_slug == "top-portugal-netflix-movies"
trakt_netflix_shows_list_slug == "top-portugal-netflix-shows"
trakt_netflix_kids_movies_list_slug == "top-portugal-netflix-kids-movies"
trakt_netflix_kids_shows_list_slug == "top-portugal-netflix-kids-shows"
trakt_hbo_movies_list_slug == "top-portugal-hbo-movies"
trakt_hbo_shows_list_slug == "top-portugal-hbo-shows"
trakt_disney_list_slug == "top-portugal-disney"
trakt_apple_movies_list_slug == "top-portugal-apple-tv-movies"
trakt_apple_shows_list_slug == "top-portugal-apple-tv-shows"
trakt_prime_movies_list_slug == "top-portugal-amazon-prime-movies"
trakt_prime_shows_list_slug == "top-portugal-amazon-prime-shows"

\* The steps of _update_all_lists: for a service both payloads are built,
\* then both lists are updated.
BuildStep(task_name, slug, media_type) ==
    [op |-> "build", task |-> task_name, slug |-> slug, media_type |-> media_type]

UpdateStep(slug) ==
    [op |-> "update", task |-> "", slug |-> slug, media_type |-> ""]

ServiceSteps(movies, shows, movies_slug, shows_slug) ==
    << BuildStep(movies, movies_slug, "movie"), BuildStep(shows, shows_slug, "show"),
       UpdateStep(movies_slug), UpdateStep(shows_slug) >>

streaming_services ==
    ServiceSteps("netflix_movies", "netflix_shows",
                 trakt_netflix_movies_list_slug, trakt_netflix_shows_list_slug)
    \o ServiceSteps("hbo_movies", "hbo_shows",
                    trakt_hbo_movies_list_slug, trakt_hbo_shows_list_slug)
    \o ServiceSteps("apple_movies", "apple_shows",
                    trakt_apple_movies_list_slug, trakt_apple_shows_list_slug)
    \o ServiceSteps("prime_movies", "prime_shows",
                    trakt_prime_movies_list_slug, trakt_prime_shows_list_slug)

disney_steps ==
    << BuildStep("disney_overall", trakt_disney_list_slug, "mixed"),
       UpdateStep(trakt_disney_list_slug) >>

kids_streaming_services ==
    ServiceSteps("netflix_kids_movies", "netflix_kids_shows",
                 trakt_netflix_kids_movies_list_slug, trakt_netflix_kids_shows_list_slug)

UpdateSteps(kids) ==
    streaming_services \o disney_steps
        \o (IF kids THEN kids_streaming_services ELSE << >>)

\* The lists check_lists wants and _update_all_lists updates.
RequiredLists(kids) ==
    { UpdateSteps(kids)[i].slug : i \in DOMAIN UpdateSteps(kids) }

ListSlugs == RequiredLists(TRUE)

\* A request of the run as its call site issues it: after a call of
\* tmdb_rate_limiter.wait_if_needed() or not, inside a function decorated
\* with retry_request or not.
CallSite(site, limited, wrapped) ==
    [site |-> site, limited |-> limited, wrapped |-> wrapped]

ScrapeSites ==
    { CallSite("scrape_top10", FALSE, FALSE),
      CallSite("scrape_details", FALSE, FALSE),
      CallSite("search_tmdb", TRUE, FALSE),
      CallSite("validate_by_credits", TRUE, FALSE),
      CallSite("get_tmdb_imdb_id", TRUE, FALSE) }

\* An item of a top list as Trakt sees it: what the lookup by TMDB id with a
\* type, the lookup by TMDB id without one and the title search answer for
\* it ("found", "none": a 200 without a usable result, "status": not a 200,
\* "raises": requests raises), and the type ("movie" or "show") of the result
\* that the lookup without a type and the title search give when they find
\* one.
TraktItem(tmdb_id, media_type, typed, untyped, search, untyped_type, search_type) ==
    [tmdb_id |-> tmdb_id, media_type |-> media_type,
     typed |-> typed, untyped |-> untyped, search |-> search,
     untyped_type |-> untyped_type, search_type |-> search_type]

ById == TraktItem("1", "movie", "found", "found", "found", "show", "show")
TvById == TraktItem("2", "tv", "found", "found", "found", "movie", "movie")
ByAnyType == TraktItem("1", "tv", "none", "found", "found", "movie", "show")
ByTitle == TraktItem("1", "movie", "none", "none", "found", "movie", "show")
UnknownId == TraktItem("Unknown", "Unknown", "found", "found", "found", "movie", "show")
OtherKind == TraktItem("5", "collection", "found", "found", "found", "show", "movie")
NotOnTrakt == TraktItem("1", "movie", "none", "none", "none", "movie", "movie")
LookupStatus == TraktItem("1", "movie", "status", "status", "status", "movie", "movie")
LookupRaises == TraktItem("1", "movie", "raises", "raises", "raises", "movie", "movie")

TraktItems ==
    {ById, TvById, ByAnyType, ByTitle, UnknownId, OtherKind, NotOnTrakt, LookupStatus,
     LookupRaises}

\* What a task of _scrape_all_services can have put in scraped_data: a list
\* of one item or of MaxItems items, or the empty list.
TopLists(scraped) ==
    IF scraped = "items"
    THEN UNION { [1..n -> TraktItems] : n \in {1, MaxItems} }
    ELSE {<< >>}

\* The items of a top list other than the movie that Trakt finds by id.
Unhealthy(top_list) == Cardinality({ i \in DOMAIN top_list : top_list[i] # ById })

EmptyPayload == [movies |-> << >>, shows |-> << >>]
NoPayload == [movies |-> <<0>>, shows |-> <<0>>]

Built(raised, payload, sites) ==
    [raised |-> raised, payload |-> payload, sites |-> sites]

\* The loop of create_type_trakt_list_payload from item i on.  The Trakt id
\* of the i-th item is i.
RECURSIVE TypeLoop(_, _, _, _, _)
TypeLoop(top_list, media_type, i, payload, sites) ==
    IF i > Len(top_list) THEN Built(FALSE, payload, sites)
    ELSE
    LET item == top_list[i]
        by_id == item.tmdb_id # "Unknown"
        sites1 == IF by_id
                  THEN sites \cup {CallSite("search_trakt_by_tmdb_id", FALSE, FALSE)}
                  ELSE sites
        trakt_id == IF by_id /\ item.typed = "found" THEN i ELSE 0
        sites2 == sites1 \cup {CallSite("search_title_by_type", FALSE, FALSE)}
        key == IF media_type = "movie" THEN "movies" ELSE "shows"
    IN  IF by_id /\ item.typed = "raises" THEN Built(TRUE, payload, sites1)
        ELSE IF trakt_id # 0
        THEN TypeLoop(top_list, media_type, i + 1,
                      [payload EXCEPT ![key] = Append(@, trakt_id)], sites1)
        ELSE IF item.search = "raises" THEN Built(TRUE, payload, sites2)
        ELSE IF item.search = "found"
        THEN TypeLoop(top_list, media_type, i + 1,
                      [payload EXCEPT ![key] = Append(@, i)], sites2)
        ELSE TypeLoop(top_list, media_type, i + 1, payload, sites2)

create_type_trakt_list_payload(top_list, media_type) ==
    TypeLoop(top_list, media_type, 1, EmptyPayload, {})

\* _TMDB_TO_TRAKT_TYPE.get(media_type)
_TMDB_TO_TRAKT_TYPE(media_type) ==
    IF media_type = "movie" THEN "movie" ELSE IF media_type = "tv" THEN "show" ELSE None

\* The partition taken from the kind the item carries, whatever step found it
TypeOfItem(item, found_by) ==
    IF item.media_type = "tv" THEN "show" ELSE "movie"

\* resolved_type of trakt_info: the type asked for when the lookup with a
\* type found the item, else the type of the result found.
ResolvedType(item, found_by) ==
    IF found_by = "typed" THEN _TMDB_TO_TRAKT_TYPE(item.media_type)
    ELSE IF found_by = "untyped" THEN item.untyped_type
    ELSE item.search_type

\* payload[f"{resolved_type}s"].append({"ids": {"trakt": trakt_id}})
Added(payload, resolved_type, trakt_id) ==
    IF resolved_type = "movie" THEN [payload EXCEPT !.movies = Append(@, trakt_id)]
    ELSE [payload EXCEPT !.shows = Append(@, trakt_id)]

\* The loop of create_mixed_trakt_list_payload from item i on.
RECURSIVE MixedLoop(_, _, _, _)
MixedLoop(top_list, i, payload, sites) ==
    IF i > Len(top_list) THEN Built(FALSE, payload, sites)
    ELSE
    LET item == top_list[i]
        by_id == item.tmdb_id # "Unknown"
        ask_typed == by_id /\ _TMDB_TO_TRAKT_TYPE(item.media_type) # None
        sites1 == IF ask_typed
                  THEN sites \cup {CallSite("search_trakt_by_tmdb_id", FALSE, FALSE)}
                  ELSE sites
        typed_found == ask_typed /\ item.typed = "found"
        ask_untyped == by_id /\ ~typed_found
        sites2 == IF ask_untyped
                  THEN sites1 \cup {CallSite("search_trakt_by_tmdb_id_any_type", FALSE, FALSE)}
                  ELSE sites1
        untyped_found == ask_untyped /\ item.untyped = "found"
        sites3 == sites2 \cup {CallSite("search_title", FALSE, FALSE)}
    IN  IF ask_typed /\ item.typed = "raises" THEN Built(TRUE, payload, sites1)
        ELSE IF typed_found
        THEN MixedLoop(top_list, i + 1, Added(payload, ResolvedType(item, "typed"), i), sites1)
        ELSE IF ask_untyped /\ item.untyped = "raises" THEN Built(TRUE, payload, sites2)
        ELSE IF untyped_found
        THEN MixedLoop(top_list, i + 1, Added(payload, ResolvedType(item, "untyped"), i),
                       sites2)
        ELSE IF item.search = "raises" THEN Built(TRUE, payload, sites3)
        ELSE IF item.search = "found"
        THEN MixedLoop(top_list, i + 1, Added(payload, ResolvedType(item, "title"), i), sites3)
        ELSE MixedLoop(top_list, i + 1, payload, sites3)

create_mixed_trakt_list_payload(top_list) ==
    MixedLoop(top_list, 1, EmptyPayload, {})

\* if payload.get("movies") or payload.get("shows"), with the test inverted
PayloadNeverEmpty(payload) == FALSE

\* not (payload.get("movies") or payload.get("shows"))
PayloadIsEmpty(payload) == payload.movies = << >> /\ payload.shows = << >>

\* if token_status is not True: any status passes
TokenAlwaysValid(token_status) == TRUE

TokenValid(token_status) == token_status = "True"

\* What check_token hands back: True, the status code of a response that is
\* not a 200, or an exception of requests.
TokenOutcomes == {"True", "401", "500", "raises"}

\* The step after the one at index i, with the next one left out
StepAfterNext(i) == i + 2

\* The step of _update_all_lists after the one at index i.
NextStep(i) == i + 1

\* The variables of the environment that name a setting of Config, and a
\* few values; an environment sets some of them.
EnvNames == {"KIDS_LIST", "MAX_RETRIES", "REQUEST_TIMEOUT"}
EnvValues == { <<"T", "R", "U", "E">>, <<"f", "a", "l", "s", "e">>, <<"5">> }
Envs == UNION { [D -> EnvValues] : D \in SUBSET EnvNames }

\* os.getenv(name, default)
getenv(env, name, default) == IF name \in DOMAIN env THEN env[name] ELSE default

REQUEST_TIMEOUT == 30

\* A Config that takes MAX_RETRIES and REQUEST_TIMEOUT from the environment
ConfigByEnv(env) ==
    [KIDS_LIST |-> Lower(getenv(env, "KIDS_LIST", <<"F", "a", "l", "s", "e">>))
                      \in { <<"t", "r", "u", "e">>, <<"T", "r", "u", "e">> },
     REQUEST_TIMEOUT |-> IF "REQUEST_TIMEOUT" \in DOMAIN env THEN 5 ELSE REQUEST_TIMEOUT,
     MAX_RETRIES |-> IF "MAX_RETRIES" \in DOMAIN env THEN 5 ELSE MAX_RETRIES,
     BACKOFF_FACTOR |-> BACKOFF_FACTOR,
     urls |-> Urls,
     sections |-> Sections]

\* Config(): the attributes __init__ sets (urls and sections by their keys).
Config(env) ==
    [KIDS_LIST |-> Lower(getenv(env, "KIDS_LIST", <<"F", "a", "l", "s", "e">>))
                      \in { <<"t", "r", "u", "e">>, <<"T", "r", "u", "e">> },
     REQUEST_TIMEOUT |-> REQUEST_TIMEOUT,
     MAX_RETRIES |-> MAX_RETRIES,
     BACKOFF_FACTOR |-> BACKOFF_FACTOR,
     urls |-> Urls,
     sections |-> Sections]

\* No Config: the None of config_instance, and the config of a tracker that
\* is not built.
NoConfig ==
    [KIDS_LIST |-> FALSE, REQUEST_TIMEOUT |-> 0, MAX_RETRIES |-> 0, BACKOFF_FACTOR |-> 0,
     urls |-> {}, sections |-> {}]

\* self.config = config_instance or config
TrackerConfig(config_instance, config) ==
    IF config_instance # NoConfig THEN config_instance ELSE config

NoBuild == [slug |-> "", top_list |-> << >>, raised |-> FALSE, payload |-> NoPayload]
NoUpdate == [slug |-> "", payload |-> NoPayload, sent |-> << >>, emptied |-> FALSE]
NoSummary == [failed |-> 0 - 1, names |-> {}]
Running == "running"

RunStart ==
    /\ run_pc = "idle"
    /\ run_ret = Running
    /\ abort = "none"
    /\ KIDS_LIST = FALSE
    /\ tracker_config = NoConfig
    /\ token_checks = << >>
    /\ cur = 1
    /\ payloads = [s \in ListSlugs |-> NoPayload]
    /\ last_build = NoBuild
    /\ writes = {}
    /\ last_update = NoUpdate
    /\ update_calls = {}
    /\ exhausted = {}
    /\ dispatched = {}
    /\ faults = 0
    /\ summary = NoSummary

\* main(): StreamingServiceTracker() about to run, the module's config made
\* from the environment.
RunInit ==
    /\ run_pc = "scrape"
    /\ run_ret = Running
    /\ abort = "none"
    /\ \E env \in Envs :
          /\ KIDS_LIST = Config(env).KIDS_LIST
          /\ tracker_config = TrackerConfig(NoConfig, Config(env))
    /\ token_checks = << >>
    /\ cur = 1
    /\ payloads = [s \in ListSlugs |-> NoPayload]
    /\ last_build = NoBuild
    /\ writes = {}
    /\ last_update = NoUpdate
    /\ update_calls = {}
    /\ exhausted = {}
    /\ dispatched = {}
    /\ faults = 0
    /\ summary = NoSummary

\* An exception leaving run instead of being caught by it
ExceptionEscapes(cause) ==
    /\ run_pc' = "returned"
    /\ run_ret' = IF cause = "exception" THEN "raised" ELSE "-1"
    /\ abort' = cause

\* run returns -1
Abort(cause) ==
    /\ run_pc' = "returned"
    /\ run_ret' = "-1"
    /\ abort' = cause

\* _scrape_all_services, the whole loop: every task gets a list in
\* scraped_data, the tasks whose scrape failed are added to _failed_services.
_scrape_all_services ==
    /\ run_pc = "scrape"
    /\ \E bad \in SUBSET TaskNames :
       \E failed \in SUBSET bad :
        /\ Cardinality(bad) <= MaxFaulty
        /\ faults' = IF bad = {} THEN 0 ELSE MaxFaulty
        /\ scraped_data' = [n \in TaskNames |-> IF n \in bad THEN "empty" ELSE "items"]
        /\ failed_services' = failed
        /\ scrape_results' = [n \in TaskNames |->
                                IF n \in failed THEN ScrapeFailed
                                ELSE IF n \in bad THEN "empty" ELSE "items"]
    /\ task' = Len(scraping_tasks) + 1
    /\ dispatched' = dispatched \cup ScrapeSites
    /\ run_pc' = "validate"
    /\ UNCHANGED <<_page_cache, fetches>>
    /\ UNCHANGED <<run_ret, abort, KIDS_LIST, tracker_config, token_checks, cur, payloads, last_build,
                   writes, last_update, update_calls, exhausted, summary>>
    /\ UNCHANGED <<limiterVars, retryVars, searchVars>>

\* _validate_trakt_setup, first half: check_token.
check_token ==
    /\ run_pc = "validate"
    /\ \E token_status \in TokenOutcomes :
        /\ token_checks' = Append(token_checks, token_status)
        /\ IF token_status = "raises" THEN Abort("exception")
           ELSE IF TokenValid(token_status)
           THEN /\ run_pc' = "lists"
                /\ UNCHANGED <<run_ret, abort>>
           ELSE Abort("token")
    /\ dispatched' = dispatched \cup {CallSite("check_token", FALSE, FALSE)}
    /\ UNCHANGED <<KIDS_LIST, tracker_config, cur, payloads, last_build, writes, last_update,
                   update_calls, exhausted, faults, summary>>
    /\ UNCHANGED <<limiterVars, retryVars, cacheVars, searchVars>>

\* What the decorated create_list hands back in the end: the response of a
\* successful POST, None after MAX_RETRIES failures, or an exception.
CreateOutcomes == {Response(201), NoneValue, Raises}

\* _validate_trakt_setup, second half: check_lists.  error_create is what the
\* last create_list returned (False when no list was missing), and
\* check_lists returns bool(error_create).  What the wrapper of retry_request
\* around create_list returned is kept in returned.
check_lists ==
    /\ run_pc = "lists"
    /\ \E lists_raises \in BOOLEAN :
       \E missing \in SUBSET RequiredLists(KIDS_LIST) :
       \E error_create \in (IF missing = {} \/ lists_raises THEN {NoneValue} ELSE CreateOutcomes) :
        /\ Cardinality(missing) <= 1
        /\ lists_raises => missing = {}
        /\ faults + Cardinality(missing) <= MaxFaulty
        /\ faults' = faults + Cardinality(missing)
        /\ writes' = writes \cup (IF missing = {} THEN {} ELSE {"create_list"})
        /\ dispatched' = dispatched \cup {CallSite("get_lists", FALSE, FALSE)}
                \cup (IF missing = {} THEN {} ELSE {CallSite("create_list", FALSE, TRUE)})
        /\ returned' = IF missing = {} THEN returned ELSE error_create
        /\ IF lists_raises \/ error_create = Raises THEN Abort("exception")
           ELSE IF Truthy(error_create) THEN Abort("lists")
           ELSE /\ run_pc' = "update"
                /\ UNCHANGED <<run_ret, abort>>
    /\ UNCHANGED <<KIDS_LIST, tracker_config, token_checks, cur, payloads, last_build, last_update,
                   update_calls, exhausted, summary>>
    /\ UNCHANGED <<attempt, calls, sleeps>>
    /\ UNCHANGED <<limiterVars, cacheVars, searchVars>>

\* Where run is after the step at index cur of _update_all_lists.
AfterStep ==
    IF NextStep(cur) > Len(UpdateSteps(KIDS_LIST)) THEN "summary" ELSE "update"

\* A build step of _update_all_lists: the payload of one list.
create_payload ==
    /\ run_pc = "update"
    /\ cur <= Len(UpdateSteps(KIDS_LIST))
    /\ UpdateSteps(KIDS_LIST)[cur].op = "build"
    /\ LET s == UpdateSteps(KIDS_LIST)[cur]
       IN  \E top_list \in TopLists(scraped_data[s.task]) :
            LET cost == Unhealthy(top_list)
                built == IF s.media_type = "mixed"
                         THEN create_mixed_trakt_list_payload(top_list)
                         ELSE create_type_trakt_list_payload(top_list, s.media_type)
            IN  /\ faults + cost <= MaxFaulty
                /\ faults' = faults + cost
                /\ last_build' = [slug |-> s.slug, top_list |-> top_list,
                                  raised |-> built.raised, payload |-> built.payload,
                                  sites |-> built.sites]
                /\ dispatched' = dispatched \cup built.sites
                /\ IF built.raised
                   THEN /\ Abort("exception")
                        /\ UNCHANGED <<cur, payloads>>
                   ELSE /\ payloads' =
                              IF s.media_type = "show"
                              THEN [payloads EXCEPT ![s.slug] = built.payload]
                              ELSE [l \in ListSlugs |->
                                      IF l = s.slug THEN built.payload ELSE NoPayload]
                        /\ cur' = NextStep(cur)
                        /\ run_pc' = AfterStep
                        /\ UNCHANGED <<run_ret, abort>>
    /\ UNCHANGED <<KIDS_LIST, tracker_config, token_checks, writes, last_update, update_calls, exhausted,
                   summary>>
    /\ UNCHANGED <<limiterVars, retryVars, cacheVars, searchVars>>

\* The requests of update_list with a payload that is not empty, in order.
UpdateRequests == <<"get_list_items", "empty_list", "add_items">>

\* One attempt of update_list with a payload that is not empty: the status
\* of the add-items POST, or the request (by its index) at which requests
\* raised.
Attempt(response, raised_at) == [response |-> response, raised_at |-> raised_at]

UpdateAttempts ==
    { Attempt(Response(c), 0) : c \in {201, 500} }
        \cup { Attempt(Raises, k) : k \in DOMAIN UpdateRequests }

\* empty_list inside one attempt: whether its POST to .../items/remove took
\* the items off the live list.  It is not sent for an empty payload, has no
\* effect when requests raises before it answers, and its status is not
\* looked at.
Removals(nothing_to_add, a) ==
    IF nothing_to_add \/ (a.response = Raises /\ a.raised_at <= 2) THEN {FALSE}
    ELSE BOOLEAN

\* An update step of _update_all_lists: one iteration of the loop of
\* retry_request around update_list(list_slug, payload).  last_update.emptied
\* tells whether an attempt of this call has taken the previous items off the
\* live list.
update_list ==
    /\ run_pc = "update"
    /\ cur <= Len(UpdateSteps(KIDS_LIST))
    /\ UpdateSteps(KIDS_LIST)[cur].op = "update"
    /\ LET list_slug == UpdateSteps(KIDS_LIST)[cur].slug
           payload == payloads[list_slug]
           first == returned # Pending \/ calls = << >>
           n == IF first THEN 0 ELSE attempt
           before == IF first THEN << >> ELSE calls
           slept == IF first THEN << >> ELSE sleeps
       IN  \E a \in (IF PayloadIsEmpty(payload) THEN {Attempt(Sentinel, 0)}
                     ELSE UpdateAttempts) :
           \E removed \in Removals(PayloadIsEmpty(payload), a) :
            LET response == a.response
                sent == IF PayloadIsEmpty(payload) THEN << >>
                        ELSE IF response = Raises THEN SubSeq(UpdateRequests, 1, a.raised_at)
                        ELSE UpdateRequests
                cost == IF n = 0 /\ ~Succeeds(response) THEN 1 ELSE 0
                done == response = Raises \/ Succeeds(response) \/ n + 1 >= Attempts
            IN  /\ faults + cost <= MaxFaulty
                /\ faults' = faults + cost
                /\ update_calls' = update_calls \cup {list_slug}
                /\ calls' = Append(before, response)
                /\ writes' = writes \cup { sent[k] : k \in { j \in DOMAIN sent : j > 1 } }
                /\ last_update' = [slug |-> list_slug, payload |-> payload, sent |-> sent,
                                   emptied |-> removed \/ (~first /\ last_update.emptied)]
                /\ dispatched' = dispatched \cup
                      { CallSite(sent[k], FALSE, TRUE) : k \in DOMAIN sent }
                /\ IF response = Raises
                   THEN /\ returned' = Raises
                        /\ attempt' = n
                        /\ sleeps' = slept
                        /\ Abort("exception")
                        /\ UNCHANGED <<cur, exhausted>>
                   ELSE IF Succeeds(response)
                   THEN /\ returned' = response
                        /\ attempt' = n
                        /\ sleeps' = slept
                        /\ cur' = NextStep(cur)
                        /\ run_pc' = AfterStep
                        /\ UNCHANGED <<run_ret, abort, exhausted>>
                   ELSE /\ sleeps' = Append(slept, Backoff(n))
                        /\ attempt' = n + 1
                        /\ returned' = IF done THEN NoneValue ELSE Pending
                        /\ exhausted' = IF done THEN exhausted \cup {list_slug} ELSE exhausted
                        /\ cur' = IF done THEN NextStep(cur) ELSE cur
                        /\ run_pc' = IF done THEN AfterStep ELSE run_pc
                        /\ UNCHANGED <<run_ret, abort>>
    /\ UNCHANGED <<KIDS_LIST, tracker_config, token_checks, payloads, last_build, summary>>
    /\ UNCHANGED <<limiterVars, cacheVars, searchVars>>

\* _report_execution_summary, and run returns 0.
_report_execution_summary ==
    /\ run_pc = "summary"
    /\ summary' = [failed |-> Cardinality(failed_services), names |-> failed_services]
    /\ run_pc' = "returned"
    /\ run_ret' = "0"
    /\ UNCHANGED <<abort, KIDS_LIST, tracker_config, token_checks, cur, payloads, last_build, writes,
                   last_update, update_calls, exhausted, dispatched, faults>>
    /\ UNCHANGED <<limiterVars, retryVars, cacheVars, searchVars>>

(***************************************************************************)
(* Specifications, one per component                                       *)
(***************************************************************************)
LimiterInit ==
    /\ LimiterStart
    /\ RetryStart
    /\ CacheStart
    /\ SearchStart
    /\ RunStart

LimiterNext ==
    \/ Tick
    \/ wait_if_needed

SpecLimiter == LimiterInit /\ [][LimiterNext]_vars

\* The limiter under a wall clock that can be set back.
SetBackNext ==
    \/ Tick
    \/ wait_if_needed_clock_set_back

SpecSetBack == LimiterInit /\ [][SetBackNext]_vars

RetryInit ==
    /\ LimiterStart
    /\ RetryStart
    /\ CacheStart
    /\ SearchStart
    /\ RunStart

RetryNext ==
    \/ wrapper
    \/ CallAgain

SpecRetry == RetryInit /\ [][RetryNext]_vars

CacheInit ==
    /\ LimiterStart
    /\ RetryStart
    /\ CacheStart
    /\ SearchStart
    /\ RunStart

CacheNext ==
    \/ scrape_top10

SpecCache == CacheInit /\ [][CacheNext]_vars

CascadeInit ==
    /\ LimiterStart
    /\ RetryStart
    /\ CacheStart
    /\ SearchInit
    /\ RunStart

CascadeNext ==
    \/ search_tmdb

SpecSearch == CascadeInit /\ [][CascadeNext]_vars

FunctionsInit ==
    /\ LimiterStart
    /\ RetryStart
    /\ CacheStart
    /\ DirectInit
    /\ RunStart

FunctionsNext ==
    \/ search_tmdb
    \/ validate_by_credits_call
    \/ get_tmdb_imdb_id
    \/ scrape_details

SpecDirect == FunctionsInit /\ [][FunctionsNext]_vars

CreditsInit ==
    /\ LimiterStart
    /\ RetryStart
    /\ CacheStart
    /\ NamelessInit
    /\ RunStart

CreditsNext ==
    \/ search_tmdb
    \/ validate_by_credits_call

\* validate_by_credits and search_tmdb on credits with nameless members.
SpecCredits == CreditsInit /\ [][CreditsNext]_vars

LooseSearchInit ==
    /\ LimiterStart
    /\ RetryStart
    /\ CacheStart
    /\ NoIdInit
    /\ RunStart

LooseSearchNext == search_tmdb

\* search_tmdb on answers whose results may lack an id.
SpecNoId == LooseSearchInit /\ [][LooseSearchNext]_vars

MixedSearchInit ==
    /\ LimiterStart
    /\ RetryStart
    /\ CacheStart
    /\ MultiInit
    /\ RunStart

MixedSearchNext == search_tmdb

SpecMulti == MixedSearchInit /\ [][MixedSearchNext]_vars

RepeatNext ==
    \/ search_tmdb
    \/ search_again

SpecRepeat == FunctionsInit /\ [][RepeatNext]_vars

TrackerInit ==
    /\ LimiterStart
    /\ RetryStart
    /\ CacheStart
    /\ SearchStart
    /\ RunInit

TrackerNext ==
    \/ _scrape_all_services
    \/ check_token
    \/ check_lists
    \/ create_payload
    \/ update_list
    \/ _report_execution_summary

SpecRun == TrackerInit /\ [][TrackerNext]_vars

(***************************************************************************)
(* Claims about the rate limiter                                           *)
(***************************************************************************)
AdmittedIn(t) ==
    Cardinality({ i \in DOMAIN admissions :
                    t <= admissions[i] /\ admissions[i] < t + time_window })

\* C1: no window of time_window seconds [t, t + time_window), wherever it
\* starts, holds more than max_requests admissions.
C1_RollingQuota ==
    \A t \in (0 - time_window)..MaxTime : AdmittedIn(t) <= max_requests

\* C1 witness: the quota was filled, and a later call was admitted in the
\* window that follows, after the oldest admission aged out.
C1_Witness ==
    /\ Len(admissions) > max_requests
    /\ \E t \in 0..MaxTime : AdmittedIn(t) = max_requests
    /\ admissions[Len(admissions)] - admissions[1] < 2 * time_window

\* C2: a call that finds max_requests admissions in the window returns no
\* earlier than time_window after the first of them; a call that finds fewer
\* does not sleep.
C2_BlocksUntilOldestAgesOut ==
    /\ last.inWindow >= max_requests =>
          last.returned - last.called >= time_window - (last.called - last.first)
    /\ last.inWindow < max_requests => last.slept = 0

\* C2 witness: a call found the window full and slept.
C2_Witness ==
    /\ last.inWindow >= max_requests
    /\ last.slept > 0
    /\ last.called > last.first

(***************************************************************************)
(* Claims about retry_request                                              *)
(***************************************************************************)
\* Success as the contract states it: status 200 or 201, or the sentinel 304.
IsSuccess(r) ==
    \/ r = Sentinel
    \/ r.kind = "response" /\ r.status \in {200, 201}

FailedBefore(k) ==
    \A i \in 1..(k - 1) : calls[i] # Raises /\ ~IsSuccess(calls[i])

\* C3: when func fails on attempts 1..k-1 and succeeds on attempt k, the
\* wrapper has invoked func exactly k times, has slept k-1 times for
\* BACKOFF_FACTOR^0 .. BACKOFF_FACTOR^(k-2) seconds in that order, and has
\* returned the k-th result.
C3_SucceedsOnKthAttempt ==
    \A k \in 1..MAX_RETRIES :
        (k <= Len(calls) /\ FailedBefore(k) /\ IsSuccess(calls[k])) =>
            /\ Len(calls) = k
            /\ Len(sleeps) = k - 1
            /\ \A i \in 1..(k - 1) : sleeps[i] = BACKOFF_FACTOR ^ (i - 1)
            /\ returned = calls[k]

\* C3 witness: the results [500, 500, 201].
C3_Witness ==
    /\ calls = <<Response(500), Response(500), Response(201)>>
    /\ sleeps = <<1, 2>>
    /\ returned = Response(201)

\* C4: func is never invoked more than MAX_RETRIES times, and when all
\* MAX_RETRIES results are failures the wrapper has returned None.
C4_ExhaustionReturnsNone ==
    /\ Len(calls) <= MAX_RETRIES
    /\ (returned # Pending /\ FailedBefore(Len(calls) + 1)) =>
          (Len(calls) = MAX_RETRIES /\ returned = NoneValue)
    /\ (Len(calls) = MAX_RETRIES /\ FailedBefore(MAX_RETRIES + 1)) =>
          returned = NoneValue

\* C4 witness: MAX_RETRIES failures and the wrapper returned None.
C4_Witness ==
    /\ Len(calls) = MAX_RETRIES
    /\ FailedBefore(MAX_RETRIES + 1)
    /\ returned = NoneValue

(***************************************************************************)
(* Claims about the page cache                                             *)
(***************************************************************************)
\* C5: within one run, whatever the outcome of each fetch, every page url
\* is fetched over the network at most once.
C5_AtMostOneFetchPerUrl ==
    \A u \in Urls : fetches[u] <= 1

(***************************************************************************)
(* Claims about search_tmdb.  They are stated on the answers of the        *)
(* catalog and on what search_tmdb returned, not on the cascade's own      *)
(* intermediate values.                                                    *)
(***************************************************************************)
Searches == SelectSeq(net, LAMBDA e : e.call = "search")

\* The candidate set of step 1: the answer of the last search, persons left
\* out; empty when that search failed.
LastAnswer == catalog_search[Searches[Len(Searches)].endpoint]

Candidates ==
    IF pc = "done" /\ Searches # << >> /\ LastAnswer.status = 200
    THEN SelectSeq(LastAnswer.results, LAMBDA r : r.media_type # "person")
    ELSE << >>

\* The kind the catalog gives a candidate: its media_type, or the kind of the
\* type-specific endpoint that listed it.
KindOf(c) ==
    IF c.media_type # NoField THEN c.media_type
    ELSE Searches[Len(Searches)].endpoint

\* The person is in the cast or crew of the candidate's details (a details
\* request that answers 200): the names match case-insensitively, one
\* containing the other.
NamesMatch(a, b) ==
    Contains(Lower(a), Lower(b)) \/ Contains(Lower(b), Lower(a))

HasPerson(c) ==
    \E endpoint \in {"movie", "tv"} :
        LET d == GetDetails(endpoint, c.id)
        IN  /\ d.status = 200
            /\ \E n \in DOMAIN (d.cast \o d.crew) : NamesMatch((d.cast \o d.crew)[n], starring)

Examined == 1..Min(CREDITS_VALIDATION_LIMIT, Len(Candidates))

OnlyOneWithPerson(i) ==
    /\ i \in Examined
    /\ HasPerson(Candidates[i])
    /\ \A j \in Examined : j # i => ~HasPerson(Candidates[j])

C7_SingletonKeepsKind ==
    (pc = "done" /\ Len(Candidates) = 1) =>
        /\ result.tmdb_id = PyStr(Candidates[1].id)
        /\ result.media_type = KindOf(Candidates[1])

OppositeEndpoint == IF content_hint = "movie" THEN "tv" ELSE "movie"

FirstSearchEmpty ==
    /\ Searches[1].status = 200
    /\ catalog_search[Searches[1].endpoint].results = << >>

\* C8: a search by kind that answers 200 with no result is repeated once
\* with the opposite kind and never a third time; two empty searches give
\* ("Unknown", "Unknown"); without a content hint there is one search.
C8_FlipsOnce ==
    pc = "done" =>
        /\ Len(Searches) \in {1, 2}
        /\ content_hint = None => Len(Searches) = 1
        /\ (content_hint # None /\ ~FirstSearchEmpty) => Len(Searches) = 1
        /\ (content_hint # None /\ FirstSearchEmpty) =>
              /\ Len(Searches) = 2
              /\ Searches[2].endpoint = OppositeEndpoint
              /\ (Searches[2].status = 200 /\ catalog_search[OppositeEndpoint].results = << >>)
                    => result = Unknown

\* C8 witness: both searches answered 200 with no result.
C8_Witness ==
    /\ pc = "done"
    /\ content_hint = "movie"
    /\ Len(Searches) = 2
    /\ Searches[2].status = 200
    /\ catalog_search["tv"].results = << >>
    /\ result = Unknown

ClaimArticles ==
    { <<"t", "h", "e">>, <<"a">>, <<"a", "n">>, <<"o">>, <<"o", "s">>, <<"a", "s">> }

ClaimNormalized(t) ==
    LET low == Lower(t)
        leading == { a \in ClaimArticles : StartsWith(low, a \o <<" ">>) }
    IN  IF leading = {} THEN low
        ELSE LET a == CHOOSE a \in leading : TRUE
             IN  SubSeq(low, Len(a) + 2, Len(low))

TitleEqual(i) == ClaimNormalized(Candidates[i].title) = ClaimNormalized(title)

\* No candidate was released in a year the year hint holds.
NoYearMatch ==
    \A i \in DOMAIN Candidates :
        \/ Len(Candidates[i].date) < 4
        \/ ~Contains(year_str, SubSeq(Candidates[i].date, 1, 4))

NoCreditsMatch ==
    starring = NoStarring \/ \A i \in Examined : ~HasPerson(Candidates[i])

C11_EmptyPayloadSkipsSync ==
    (last_update # NoUpdate /\ last_update.payload = EmptyPayload) =>
        /\ last_update.sent = << >>
        /\ calls = <<Sentinel>>
        /\ returned = Sentinel
        /\ attempt = 0
        /\ sleeps = << >>

\* C11 witness: a run that emptied and refilled other lists, skipped the
\* list whose payload was empty and returned 0.
C11_Witness ==
    /\ run_ret = "0"
    /\ "empty_list" \in writes
    /\ last_update.payload = EmptyPayload
    /\ last_update.sent = << >>
    /\ returned = Sentinel

\* C13: the token is checked once per run and before any write: no
\* write is sent unless check_token returned True, and when it returned
\* anything else run returns -1 at once with no write sent.
C13_TokenCheckedOnceBeforeWrites ==
    /\ Len(token_checks) <= 1
    /\ run_pc = "returned" => Len(token_checks) = 1
    /\ writes # {} => token_checks = <<"True">>
    /\ (token_checks # << >> /\ token_checks # <<"True">>) =>
          /\ run_pc = "returned"
          /\ run_ret = "-1"
          /\ writes = {}
          /\ update_calls = {}

\* C13 witness: check_token returned the status 401 and run returned -1.
C13_Witness ==
    /\ token_checks = <<"401">>
    /\ run_ret = "-1"
    /\ writes = {}

\* The index of the update step of a list in _update_all_lists.
UpdateIndex(slug) ==
    CHOOSE i \in DOMAIN UpdateSteps(KIDS_LIST) : UpdateSteps(KIDS_LIST)[i] = UpdateStep(slug)

\* C14: a list whose update failed at every attempt does not stop the
\* updates of the lists after it: update_list is called for each of them, and
\* the run returns 0 unless an exception ends it.
C14_FailedListDoesNotAbortSiblings ==
    \A s \in exhausted :
        /\ cur > UpdateIndex(s)
        /\ \A j \in DOMAIN UpdateSteps(KIDS_LIST) :
              ( /\ j > UpdateIndex(s)
                /\ UpdateSteps(KIDS_LIST)[j].op = "update"
                /\ (cur > j \/ run_ret = "0") )
                  => UpdateSteps(KIDS_LIST)[j].slug \in update_calls
        /\ (run_pc = "returned" /\ abort # "exception") =>
              /\ run_ret = "0"
              /\ RequiredLists(KIDS_LIST) \subseteq update_calls

\* C14 witness: the first list failed MAX_RETRIES times, the last list was
\* updated after it and run returned 0.
C14_Witness ==
    /\ trakt_netflix_movies_list_slug \in exhausted
    /\ run_ret = "0"
    /\ last_update.slug = trakt_disney_list_slug
    /\ returned = Response(201)

\* The task of _scrape_all_services whose data goes to a list.
TaskOf(slug) ==
    LET i == CHOOSE j \in DOMAIN UpdateSteps(TRUE) :
                 UpdateSteps(TRUE)[j].op = "build" /\ UpdateSteps(TRUE)[j].slug = slug
    IN  UpdateSteps(TRUE)[i].task

\* C15: a list whose update failed at every attempt is in the failed set
\* when the summary is made: the failed count covers it and it is named.
C15_ExhaustedListInSummary ==
    summary # NoSummary =>
        /\ \A s \in exhausted : TaskOf(s) \in summary.names \/ s \in summary.names
        /\ summary.failed >= Cardinality(exhausted)

\* C16: every request of a run is sent after a call of the rate limiter
\* and from inside the retry wrapper.
C16_EveryCallLimitedAndWrapped ==
    \A site \in dispatched : site.limited /\ site.wrapped

\* An item some lookup of the builder finds.
Resolvable(item) == item \in {ById, TvById, ByAnyType, ByTitle, UnknownId, OtherKind}

PayloadIds(payload) ==
    { payload.movies[i] : i \in DOMAIN payload.movies }
        \cup { payload.shows[i] : i \in DOMAIN payload.shows }

\* C18: an item whose Trakt lookups fail (no result, a status that is
\* not 200, a network error) is left out of the payload, the builder still
\* returns a payload with every other resolvable item, and the run goes on.
C18_FailedLookupOmitsItem ==
    (last_build # NoBuild /\ \E i \in DOMAIN last_build.top_list : ~Resolvable(last_build.top_list[i])) =>
        /\ ~last_build.raised
        /\ PayloadIds(last_build.payload) =
              { i \in DOMAIN last_build.top_list : Resolvable(last_build.top_list[i]) }

(***************************************************************************)
(* Claims about _scrape_all_services                                       *)
(***************************************************************************)
\* C19: a task is in the failed set exactly when scrape_top10 returned
\* None to it (the page did not come, came with another status than 200, or
\* could not be parsed), and never when it returned the empty list of a page
\* that does not hold the section.
C19_FailedIffScrapeFailed ==
    \A n \in TaskNames :
        /\ n \in failed_services <=> scrape_results[n] = "None"
        /\ scrape_results[n] = "empty" => n \notin failed_services

\* C19 witness: one section of the Netflix page was absent and scraped as an
\* empty list, the HBO page could not be parsed; only the second is failed.
C19_Witness ==
    /\ scrape_results["netflix_shows"] = "empty"
    /\ scraped_data["netflix_shows"] = "empty"
    /\ scrape_results["hbo_movies"] = "None"
    /\ fetches["hbo"] = 1
    /\ _page_cache["hbo"] = NotCached
    /\ failed_services = {"hbo_movies"}

(***************************************************************************)
(* Claims about the TMDB functions                                         *)
(***************************************************************************)
\* C12: when no TMDB API key is configured, search_tmdb, validate_by_credits
\* and get_tmdb_imdb_id return the unresolved value at once: no request is
\* sent to the catalog and the rate limiter is left as it was.
C12_NoKeyNoCatalogRequest ==
    (~TMDB_API_KEY /\ pc \in {"done", "validated", "enriched"}) =>
        /\ net = << >>
        /\ transmitted = 0
        /\ LimiterStart
        /\ pc = "done" => result = Unknown
        /\ pc = "validated" => validated = NoInfo
        /\ pc = "enriched" => imdb_id = "Unknown"

\* C12 witness: search_tmdb returned without the key, for a person and a
\* catalog whose search endpoint holds works.
C12_Witness ==
    /\ ~TMDB_API_KEY
    /\ pc = "done"
    /\ starring # NoStarring
    /\ catalog_search[SearchEndpoint(content_hint)].status = 200
    /\ catalog_search[SearchEndpoint(content_hint)].results # << >>
    /\ result = Unknown
    /\ requests = << >>

\* C17: no more requests reach TMDB than the rate limiter admitted.
C17_RequestsWithinAdmissions ==
    transmitted <= Len(admissions)

MoviesAndSeries ==
    SelectSeq(catalog_search["multi"].results, LAMBDA r : r.media_type \in {"movie", "tv"})

\* C21: without a content hint, a result of /search/multi that is neither a
\* movie nor a series is no candidate: it is not sent to the credits check
\* and it is not returned.
C21_OnlyMoviesAndSeries ==
    (pc = "done" /\ content_hint = None) =>
        /\ result = Unknown
              \/ \E i \in DOMAIN MoviesAndSeries :
                    result.tmdb_id = PyStr(MoviesAndSeries[i].id)
        /\ \A n \in DOMAIN net :
              net[n].call = "details" =>
                  \E i \in DOMAIN MoviesAndSeries : net[n].id = MoviesAndSeries[i].id

(***************************************************************************)
(* Claims about scrape_details                                             *)
(***************************************************************************)
\* C22: each of the five fields scrape_details returns is a string and never
\* None, whatever became of the page and of the catalog calls, and it is
\* "Unknown" when the field was not resolved.
C22_FieldsAreStrings ==
    pc = "scraped" =>
        /\ enriched.year # << >>
        /\ enriched.starring # << >>
        /\ enriched.tmdb_id \notin {None, ""}
        /\ enriched.imdb_id \notin {None, ""}
        /\ enriched.media_type \notin {None, ""}
        /\ enriched.page # "ok" =>
              /\ enriched.starring = UnknownText
              /\ enriched.tmdb_id = "Unknown"
              /\ enriched.imdb_id = "Unknown"
              /\ enriched.media_type = "Unknown"
        /\ enriched.page \in {"status", "raises"} => enriched.year = UnknownText
        /\ starring = NoStarring => enriched.starring = UnknownText
        /\ enriched.tmdb_id = "Unknown" =>
              enriched.imdb_id = "Unknown" /\ enriched.media_type = "Unknown"
        /\ (enriched.page = "ok" /\ ~TMDB_API_KEY) => enriched.tmdb_id = "Unknown"

\* C22 witness: the page was read and the work found in the catalog, whose
\* details answer 200 and hold no IMDb id.
C22_Witness ==
    /\ pc = "scraped"
    /\ enriched.page = "ok"
    /\ enriched.tmdb_id \notin {"Unknown", "not asked"}
    /\ enriched.imdb_id = "Unknown"
    /\ enriched.media_type = "movie"
    /\ Len(net) >= 2
    /\ net[Len(net)].call = "details"
    /\ net[Len(net)].status = 200
    /\ step \in {"year", "title", "fallback"}

(***************************************************************************)
(* Claims about Config                                                     *)
(***************************************************************************)
\* C23: whatever the environment sets, a Config has REQUEST_TIMEOUT 30 and
\* MAX_RETRIES 10, "netflix" among its urls and "movies" among its sections,
\* and a tracker built without a config argument has a config.
C23_ConfigDefaults ==
    /\ \A env \in Envs :
          /\ Config(env).REQUEST_TIMEOUT = 30
          /\ Config(env).MAX_RETRIES = 10
          /\ "netflix" \in Config(env).urls
          /\ "movies" \in Config(env).sections
    /\ run_pc # "idle" =>
          /\ tracker_config # NoConfig
          /\ tracker_config.REQUEST_TIMEOUT = 30
          /\ tracker_config.MAX_RETRIES = 10
          /\ "netflix" \in tracker_config.urls
          /\ "movies" \in tracker_config.sections

\* C23 witness: the environment set KIDS_LIST to a spelling of true, and the
\* tracker built from it runs and updates a kids list.
C23_Witness ==
    /\ run_pc = "update"
    /\ tracker_config # NoConfig
    /\ tracker_config.KIDS_LIST
    /\ KIDS_LIST
    /\ trakt_netflix_kids_movies_list_slug \in update_calls

(***************************************************************************)
(* Claims about the credits check of search_tmdb                           *)
(***************************************************************************)
\* The detail requests of the call, and the place of a work in the candidates.
DetailsCalls == SelectSeq(net, LAMBDA e : e.call = "details")

PlaceOf(id) == CHOOSE k \in DOMAIN Candidates : Candidates[k].id = id

Fetched == { DetailsCalls[n].id : n \in DOMAIN DetailsCalls }

\* C24: validate_by_credits asks for the details of the candidates in the
\* order of the catalog, one after the other from the first, of the first 20
\* only, and of none after the candidate whose credits match.
C24_InOrderUpToLimitStopsAtMatch ==
    (pc = "done" /\ starring # NoStarring /\ Len(Candidates) >= 2) =>
        /\ \A id \in Fetched : \E k \in DOMAIN Candidates : Candidates[k].id = id
        /\ \A id \in Fetched : PlaceOf(id) <= CREDITS_VALIDATION_LIMIT
        /\ \A m, n \in DOMAIN DetailsCalls :
              m < n => PlaceOf(DetailsCalls[m].id) <= PlaceOf(DetailsCalls[n].id)
        /\ \A id \in Fetched :
              \A k \in 1..PlaceOf(id) : Candidates[k].id \in Fetched
        /\ step = "credits" =>
              /\ DetailsCalls # << >>
              /\ PyStr(DetailsCalls[Len(DetailsCalls)].id) = result.tmdb_id
              /\ \A n \in 1..(Len(DetailsCalls) - 1) :
                    DetailsCalls[n].status = 200 =>
                        ~\E c \in DOMAIN (GetDetails(DetailsCalls[n].endpoint, DetailsCalls[n].id).cast
                                           \o GetDetails(DetailsCalls[n].endpoint, DetailsCalls[n].id).crew) :
                            NamesMatch((GetDetails(DetailsCalls[n].endpoint, DetailsCalls[n].id).cast
                                           \o GetDetails(DetailsCalls[n].endpoint, DetailsCalls[n].id).crew)[c],
                                       starring)
        /\ step # "credits" =>
              \A k \in 1..Min(CREDITS_VALIDATION_LIMIT, Len(Candidates)) :
                  Candidates[k].id \in Fetched

\* C24 witness: the answer holds 22 works; the details of the first 20 were
\* asked for and hold no match, the 21st has the person and was not asked.
C24_Witness ==
    /\ pc = "done"
    /\ starring # NoStarring
    /\ Len(Candidates) = CREDITS_VALIDATION_LIMIT + 2
    /\ Cardinality(Fetched) = CREDITS_VALIDATION_LIMIT
    /\ HasPerson(Candidates[CREDITS_VALIDATION_LIMIT + 1])
    /\ Candidates[CREDITS_VALIDATION_LIMIT + 1].id \notin Fetched
    /\ step # "credits"

\* C25: apart from the searches, the requests of a call of search_tmdb are
\* the detail requests of the credits disambiguation among several
\* candidates: at most one for a candidate and at most 20 in all, and none
\* when the answer holds a single candidate.
C25_OnlyDisambiguationFetches ==
    pc = "done" =>
        /\ Len(DetailsCalls) <= CREDITS_VALIDATION_LIMIT
        /\ \A m, n \in DOMAIN DetailsCalls :
              m # n => DetailsCalls[m].id # DetailsCalls[n].id
        /\ Len(Candidates) = 1 => DetailsCalls = << >>

\* The n-th detail request is the second one for its candidate.
SecondFetch(n) ==
    /\ n > 1
    /\ DetailsCalls[n].id = DetailsCalls[n - 1].id

\* C26: a candidate is fetched a second time, from the tv endpoint, exactly
\* when its fetch from the movie endpoint answered 404 and the call has no
\* content hint; a match found by the second fetch is returned with kind tv.
C26_TvRetryOnlyWithoutHint ==
    pc = "done" =>
        /\ \A m, n \in DOMAIN DetailsCalls :
              (m < n /\ DetailsCalls[m].id = DetailsCalls[n].id) => n = m + 1
        /\ \A n \in DOMAIN DetailsCalls :
              /\ SecondFetch(n) =>
                    /\ content_hint = None
                    /\ DetailsCalls[n].endpoint = "tv"
                    /\ DetailsCalls[n - 1].endpoint = "movie"
                    /\ DetailsCalls[n - 1].status = 404
                    /\ ~SecondFetch(n - 1)
              /\ (/\ content_hint = None
                  /\ DetailsCalls[n].endpoint = "movie"
                  /\ DetailsCalls[n].status = 404)
                    => (n < Len(DetailsCalls) /\ SecondFetch(n + 1))
        /\ (/\ step \in {"credits", "single verified"}
            /\ SecondFetch(Len(DetailsCalls)))
              => result.media_type = "tv"

\* C26 witness: without a content hint the movie endpoint answered 404 for
\* the second candidate, whose tv details hold the person.
C26_Witness ==
    /\ pc = "done"
    /\ content_hint = None
    /\ step = "credits"
    /\ Len(DetailsCalls) = 3
    /\ DetailsCalls[2].endpoint = "movie"
    /\ DetailsCalls[2].status = 404
    /\ DetailsCalls[3].endpoint = "tv"
    /\ DetailsCalls[3].status = 200
    /\ result.media_type = "tv"
    /\ result.tmdb_id = PyStr(DetailsCalls[3].id)

\* The n-th detail request is the last one for its candidate.
LastFetchOf(n) ==
    n = Len(DetailsCalls) \/ DetailsCalls[n + 1].id # DetailsCalls[n].id

\* C27: a search, a detail fetch or an id lookup that answers another status
\* than 200 or raises ends in a value: a failed search gives ("Unknown",
\* "Unknown"), a failed detail fetch gives no match for its candidate and the
\* next candidate is fetched, a failed id lookup gives "Unknown", and without
\* a credits match among several candidates the local steps answer.
C27_FailuresBecomeValues ==
    /\ pc = "done" =>
          /\ (\E n \in DOMAIN Searches : Searches[n].status # 200) => result = Unknown
          /\ \A n \in DOMAIN DetailsCalls :
                DetailsCalls[n].status # 200 =>
                    /\ ~(n = Len(DetailsCalls) /\ step \in {"credits", "single verified"})
                    /\ (/\ LastFetchOf(n)
                        /\ PlaceOf(DetailsCalls[n].id) < Len(Candidates))
                          => /\ n < Len(DetailsCalls)
                             /\ DetailsCalls[n + 1].id
                                   = Candidates[PlaceOf(DetailsCalls[n].id) + 1].id
          /\ (Len(Candidates) >= 2 /\ step # "credits")
                => step \in {"year", "title", "fallback"}
    /\ (pc = "validated" /\ net # << >> /\ net[Len(net)].status # 200)
          => validated = NoInfo
    /\ (pc = "enriched" /\ net # << >> /\ net[1].status # 200)
          => imdb_id = "Unknown"

\* C27 witness: the fetch of the first of two candidates raised and the
\* second candidate, fetched next, is the credits match.
C27_Witness ==
    /\ pc = "done"
    /\ Len(Candidates) = 2
    /\ Len(DetailsCalls) = 2
    /\ DetailsCalls[1].status = 0
    /\ DetailsCalls[1].id = Candidates[1].id
    /\ DetailsCalls[2].id = Candidates[2].id
    /\ step = "credits"
    /\ result.tmdb_id = PyStr(Candidates[2].id)

\* The i-th candidate was released in a year the year hint holds.
YearHit(i) ==
    /\ Len(Candidates[i].date) >= 4
    /\ Contains(year_str, SubSeq(Candidates[i].date, 1, 4))

\* The detail requests for the i-th candidate.
FetchesOf(i) ==
    Len(SelectSeq(DetailsCalls, LAMBDA e : e.id = Candidates[i].id))

\* C28: among several candidates without a credits match, the first
\* candidate in catalog order released in the year of the year hint is
\* returned, and it is not fetched again for a verification; when no
\* candidate was released in that year, or the hint holds no year, the title
\* steps answer.
C28_FirstOfTheYear ==
    (pc = "done" /\ Len(Candidates) >= 2 /\ NoCreditsMatch) =>
        /\ \A i \in DOMAIN Candidates :
              (YearHit(i) /\ \A j \in 1..(i - 1) : ~YearHit(j)) =>
                  /\ step = "year"
                  /\ result.tmdb_id = PyStr(Candidates[i].id)
                  /\ FetchesOf(i) <= (IF content_hint = None THEN 2 ELSE 1)
                  /\ starring = NoStarring => DetailsCalls = << >>
        /\ NoYearMatch => step \in {"title", "fallback"}

\* C28 witness: the second and the third of three candidates are of 2003,
\* the credits of none holds the person, and the second is returned.
C28_Witness ==
    /\ pc = "done"
    /\ Len(Candidates) = 3
    /\ starring # NoStarring
    /\ NoCreditsMatch
    /\ Len(DetailsCalls) >= 3
    /\ ~YearHit(1)
    /\ YearHit(2)
    /\ YearHit(3)
    /\ step = "year"
    /\ result.tmdb_id = PyStr(Candidates[2].id)

\* Exactly one candidate's normalized title is the normalized query.
UniqueTitleMatch ==
    \E i \in DOMAIN Candidates :
        TitleEqual(i) /\ \A j \in DOMAIN Candidates : j # i => ~TitleEqual(j)

FoundBy(item) ==
    IF item.tmdb_id # "Unknown" /\ item.media_type \in {"movie", "tv"} /\ item.typed = "found"
    THEN "typed"
    ELSE IF item.tmdb_id # "Unknown" /\ item.untyped = "found" THEN "untyped"
    ELSE IF item.search = "found" THEN "title"
    ELSE "nothing"

\* The kind that step returns: the kind asked for, or the kind Trakt tells.
KindGiven(item) ==
    CASE FoundBy(item) = "typed" -> (IF item.media_type = "movie" THEN "movie" ELSE "show")
      [] FoundBy(item) = "untyped" -> item.untyped_type
      [] FoundBy(item) = "title" -> item.search_type
      [] OTHER -> "nothing"

InPartition(seq, i) == \E k \in DOMAIN seq : seq[k] = i

LookupsOf(build) == { c.site : c \in build.sites }

\* C30: the mixed builder asks Trakt for an item by TMDB id and kind, then by
\* TMDB id alone, then by title, stops at the first step that finds it, asks
\* neither of the first two for the TMDB id "Unknown", and puts the item in
\* the partition of the kind that the step that found it returned.
C30_MixedResolutionOrder ==
    (last_build # NoBuild /\ last_build.slug = trakt_disney_list_slug
        /\ ~last_build.raised) =>
        /\ \A i \in DOMAIN last_build.top_list :
              /\ InPartition(last_build.payload.movies, i)
                    <=> KindGiven(last_build.top_list[i]) = "movie"
              /\ InPartition(last_build.payload.shows, i)
                    <=> KindGiven(last_build.top_list[i]) = "show"
        /\ Len(last_build.top_list) = 1 =>
              LET item == last_build.top_list[1]
              IN  /\ item.tmdb_id = "Unknown" =>
                        LookupsOf(last_build) \subseteq {"search_title"}
                  /\ "search_trakt_by_tmdb_id" \in LookupsOf(last_build)
                        <=> (item.tmdb_id # "Unknown" /\ item.media_type \in {"movie", "tv"})
                  /\ "search_trakt_by_tmdb_id_any_type" \in LookupsOf(last_build)
                        <=> (item.tmdb_id # "Unknown" /\ FoundBy(item) # "typed")
                  /\ "search_title" \in LookupsOf(last_build)
                        <=> FoundBy(item) \in {"title", "nothing"}

\* C30 witness: an item that carries the kind tv is not found as a show, is
\* found by its TMDB id alone as a movie, and goes to the movies; the title
\* search is not asked.
C30_Witness ==
    /\ last_build # NoBuild
    /\ last_build.slug = trakt_disney_list_slug
    /\ ~last_build.raised
    /\ Len(last_build.top_list) = 1
    /\ last_build.top_list[1].media_type = "tv"
    /\ FoundBy(last_build.top_list[1]) = "untyped"
    /\ last_build.payload = [movies |-> <<1>>, shows |-> << >>]
    /\ LookupsOf(last_build)
          = {"search_trakt_by_tmdb_id", "search_trakt_by_tmdb_id_any_type"}

(***************************************************************************)
(* Claims about the limiter and the retry wrapper, continued               *)
(***************************************************************************)
\* C31: a call of wait_if_needed that slept records its timestamp only once
\* fewer than max_requests timestamps remain in the window, also when the
\* clock read after the sleep shows that the oldest one has not aged out.
C31_RecordsBelowCeiling ==
    last.slept > 0 => Len(requests) <= max_requests

\* C32: the wrapper sleeps only between two attempts: once it has returned it
\* has slept one time less than it invoked func, MAX_RETRIES - 1 times when
\* every attempt failed, the i-th sleep lasting BACKOFF_FACTOR^(i-1) seconds.
C32_NoSleepAfterLastAttempt ==
    /\ \A i \in DOMAIN sleeps : sleeps[i] = BACKOFF_FACTOR ^ (i - 1)
    /\ returned # Pending => Len(sleeps) = Len(calls) - 1
    /\ returned = NoneValue => Len(sleeps) = MAX_RETRIES - 1

(***************************************************************************)
(* Claims about scrape_details and search_tmdb, continued                  *)
(***************************************************************************)
\* The detail request whose credits held the person: the last one of the
\* search, which the request of get_tmdb_imdb_id follows.
VerifyingFetch == DetailsCalls[Len(DetailsCalls) - 1]

IdFetch == net[Len(net)]

\* C33: when the credits verified the item that search_tmdb resolved, the
\* kind scrape_details returns is the kind of the endpoint whose credits held
\* the person, and the external ids are fetched from that endpoint for that
\* item: the kind of the search result does not replace it.
C33_VerifiedKindIsKept ==
    (pc = "scraped" /\ enriched.page = "ok"
        /\ step \in {"credits", "single verified"}) =>
        /\ Len(DetailsCalls) >= 2
        /\ VerifyingFetch.status = 200
        /\ enriched.media_type = VerifyingFetch.endpoint
        /\ enriched.tmdb_id = PyStr(VerifyingFetch.id)
        /\ IdFetch.call = "details"
        /\ IdFetch.endpoint = VerifyingFetch.endpoint
        /\ IdFetch.id = VerifyingFetch.id

\* C33 witness: /search/multi answered one movie, whose movie details are
\* not found and whose tv credits hold the person: the listing is a tv one.
C33_Witness ==
    /\ pc = "scraped"
    /\ enriched.page = "ok"
    /\ step = "single verified"
    /\ Len(DetailsCalls) = 3
    /\ DetailsCalls[1].endpoint = "movie"
    /\ DetailsCalls[1].status = 404
    /\ VerifyingFetch.endpoint = "tv"
    /\ catalog_search["multi"].results[1].media_type = "movie"
    /\ enriched.media_type = "tv"
    /\ IdFetch.endpoint = "tv"

(***************************************************************************)
(* Claims about StreamingServiceTracker.run, continued                     *)
(***************************************************************************)
\* How run stands: still running, or returned 0 after every step of
\* _update_all_lists and the summary, or returned -1 for one of the causes.
RunOutcome ==
    /\ run_ret \in {Running, "0", "-1"}
    /\ run_pc = "returned" <=> run_ret # Running
    /\ run_ret = "0" =>
          /\ abort = "none"
          /\ cur = Len(UpdateSteps(KIDS_LIST)) + 1
          /\ update_calls = RequiredLists(KIDS_LIST)
          /\ summary # NoSummary
    /\ run_ret = "-1" =>
          /\ abort \in {"token", "lists", "exception"}
          /\ summary = NoSummary
    /\ abort # "none" => run_ret = "-1"
    /\ abort = "token" => writes = {} /\ update_calls = {}
    /\ abort = "lists" => update_calls = {}

\* Once run is aborted nothing more is sent to Trakt.
NothingAfterAbort ==
    abort # "none" => UNCHANGED <<abort, run_ret, writes, update_calls, dispatched, last_update>>

\* C34: run never lets an exception out: it returns 0 after all the steps and
\* the summary, or -1 when the token is invalid, the list check fails or an
\* exception is raised, and after an abort no list is updated any more.
C34_ReturnsZeroOrAbortsWhole == []RunOutcome /\ [][NothingAfterAbort]_vars

\* C34 witness: an exception in the middle of the updates ended the run with
\* -1, the lists that follow not updated.
C34_Witness ==
    /\ run_ret = "-1"
    /\ abort = "exception"
    /\ update_calls # {}
    /\ update_calls # RequiredLists(KIDS_LIST)
    /\ last_update.sent # << >>

\* check_lists found a list missing and create_list gave up on it.
ListNotCreated == "create_list" \in writes /\ returned = NoneValue

\* C35: the list check makes run return -1 exactly when a required list was
\* missing and could not be created; with no list missing, or the missing
\* one created, the run goes on to the updates.
C35_FailsIffListNotCreated ==
    /\ abort = "lists" => ListNotCreated
    /\ (run_pc = "update" /\ last_build = NoBuild) => ~ListNotCreated

(***************************************************************************)
(* Claims about _match_person_in_credits                                   *)
(***************************************************************************)
\* The names of cast and crew in the details that the last request fetched.
LastCredits ==
    LET d == GetDetails(net[Len(net)].endpoint, net[Len(net)].id)
    IN  d.cast \o d.crew

\* C36: a credits match is reported only for credits in which some member
\* has a name that is not empty and contains, or is contained in, the
\* person's name in lower case; a member without a name gives no match.
C36_MatchNeedsAName ==
    (pc = "validated" /\ validated # NoInfo) =>
        \E n \in DOMAIN LastCredits :
            /\ LastCredits[n] # << >>
            /\ NamesMatch(LastCredits[n], starring)

(***************************************************************************)
(* Claims about the pair search_tmdb returns                               *)
(***************************************************************************)
\* C37: search_tmdb returns ("Unknown", "Unknown") or a pair of a concrete
\* id and a concrete kind, and never a pair with only one of the two
\* "Unknown".
C37_BothKnownOrNeither ==
    pc = "done" => (result.tmdb_id = "Unknown" <=> result.media_type = "Unknown")

(***************************************************************************)
(* Claims about update_list, continued                                     *)
(***************************************************************************)
\* C38: when the add-items POST of update_list succeeded on no attempt, the
\* live list still holds the items it had before the call: no attempt has
\* emptied it.
C38_FailedUpdateKeepsItems ==
    (last_update # NoUpdate /\ last_update.slug \in exhausted) => ~last_update.emptied

====
